---------------------------- MODULE Spec2Model ----------------------------
(***************************************************************************)
(* A model of LangoTango (src/langotango.py): the document history         *)
(* (LangoTangoDocument), the editor integration of undo/redo               *)
(* (LangoTangoWordProcessor.document_changed, undo_document,               *)
(* redo_document, file_tree_clicked) and the workspace tree                *)
(* (create, drag-and-drop, move to trash, move to research, empty trash,    *)
(* rename), compile, search, the opening and the saving of a file, and the *)
(* commentary panel's worker thread (AICommentary).                        *)
(*                                                                         *)
(* The specifications share the definitions:                               *)
(*   Spec         one LangoTangoDocument driven through its methods        *)
(*   SpecEditor   the window: documents, the editor widget, the shortcuts  *)
(*   SpecTree     the window: the folders and the file tree widget         *)
(*   SpecExcerpt  search_project.get_excerpt on texts with one match       *)
(*   SpecOpen     open_document on saved and on damaged files              *)
(*   SpecProject  compile and search in opened and rearranged workspaces   *)
(*   SpecStacks   add_state, undo and redo in any order and number         *)
(*   SpecContent  json_to_qtextedit and qtextedit_to_json on contents      *)
(*   SpecCurrent  the actions that assign current_document or remove items *)
(*   SpecSave     save_to_file step by step, with failures and a crash     *)
(*   SpecReload   to_dict and from_dict on the folders of a workspace      *)
(*   SpecCommentary  analyze_text, the worker thread and the event loop,   *)
(*                with weak fairness of the timer, thread and event loops  *)
(* Timestamps (created, modified) take no part in any decision of the      *)
(* code modelled here and are left out of the records.                     *)
(***************************************************************************)
EXTENDS Integers, Sequences, FiniteSets, TLC

VARIABLES
    doc,          \* Spec: the LangoTangoDocument under test
    recorded,     \* Spec: history variable, the contents handed to add_state in
                  \*       call order while add_state is the only method called
    nrec,         \* Spec: number of add_state calls made by the caller so far
    nundo,        \* Spec: number of undo() calls that popped a state
    loaded,       \* Spec: whether the document was replaced by from_dict
    h_op,         \* history variable: the last operation
    h_ret,        \* history variable: what the last operation returned
    h_pre,        \* history variable: the document before the last operation
    h_undo,       \* history variable: set by undo(), kept by a redo() that
                  \*       follows it immediately: the document before that undo
                  \*       and the state the undo popped
    h_dead,       \* history variable: the states that were on this document's
                  \*       redo_stack when an add_state call cleared it
    documents,    \* SpecEditor: the LangoTangoDocument objects, by identity
    current_document,  \* SpecEditor: the window's current_document, or NoDocument
    text_editor,  \* SpecEditor: the QTextEdit's document, a sequence of blocks
    undo_shortcut,     \* SpecEditor: undo_shortcut.isEnabled()
    redo_shortcut,     \* SpecEditor: redo_shortcut.isEnabled()
    nedit,        \* SpecEditor: number of user edits so far
    items,        \* the items list of every LangoTangoFolder, by identity
    ncreated,     \* number of documents and folders the user has created
    nmove,        \* SpecTree: number of drops and moves handled so far
    h_drop,       \* history variable: what the last tree_drop_event was asked
                  \*       to do and what it did
    root_folder,       \* the window's root_folder: the identity of a folder
    research_folder,   \* the window's research_folder
    trash_folder,      \* the window's trash_folder
    folder_name,  \* the name of every LangoTangoFolder, by identity
    nrename,      \* number of renames so far
    nopen,        \* number of files opened so far
    compiled,     \* what get_compiled_content returned last, or None
    results,      \* what search_project returned last, or None
    excerpt,      \* SpecExcerpt: the last get_excerpt call and its result
    h_move,       \* history variable: the item and the source folder of the
                  \*       last move_to_trash, or None
    h_emptied,    \* history variable: everything that was inside the Trash
                  \*       folder when a confirmed empty_trash cleared it
    h_file,       \* history variable: the file of the last open_document
    converted,    \* SpecContent: the last content converted to the editor and
                  \*       back, with the result, or None
    current_file_path, \* the window's current_file_path, or None
    saving,       \* SpecSave: the save_to_file call that is running: who called
                  \*       it, where it is, the data it writes, and the
                  \*       documents and the disk when it was called; or None
    disk,         \* SpecSave: the file at the target path, the file at the
                  \*       temporary path and the backup copies
    crashed,      \* SpecSave: the process has died
    nsave,        \* SpecSave: number of save_to_file calls so far
    h_save,       \* history variable: how the last save_to_file call ended
    reloaded,     \* SpecReload: the folder last written with to_dict and read
                  \*       back with from_dict, with the window that holds the
                  \*       copy, or None
    last_text,    \* AICommentary.last_text
    typing_timer, \* AICommentary.typing_timer is running
    server_combo, \* the server selected in the commentary panel
    model_combo,  \* the model selected in the commentary panel, "" when none
    worker_thread, \* AICommentary.worker_thread: None or the thread's number
    threads,      \* the QThreads analyze_text has started, in order: where
                  \*       each is and what its worker's request came to
    main_events,  \* the slot calls queued for the main thread's event loop
    status_label  \* what the commentary panel's status_label shows

historyVars == <<doc, recorded, nrec, nundo, loaded, h_undo, h_dead>>

editorVars == <<documents, current_document, text_editor, undo_shortcut,
                redo_shortcut, nedit>>

windowVars == <<root_folder, research_folder, trash_folder>>

\* the variables of the specifications that follow the first three
saveVars == <<current_file_path, saving, disk, crashed, nsave, h_save>>

commentaryVars == <<last_text, typing_timer, server_combo, model_combo,
                    worker_thread, threads, main_events, status_label>>

extraVars == <<reloaded, commentaryVars>>

laterVars == <<converted, extraVars, saveVars>>

projectVars == <<items, ncreated, nmove, h_drop, windowVars, folder_name,
                 nrename, nopen, compiled, results, excerpt, h_move, h_emptied,
                 h_file>>

treeVars == <<projectVars, laterVars>>

vars == <<doc, recorded, nrec, nundo, loaded, h_op, h_ret, h_pre, h_undo, h_dead,
          documents, current_document, text_editor, undo_shortcut,
          redo_shortcut, nedit, items, ncreated, nmove, h_drop, root_folder,
          research_folder, trash_folder, folder_name, nrename, nopen, compiled,
          results, excerpt, h_move, h_emptied, h_file, converted,
          current_file_path, saving, disk, crashed, nsave, h_save, reloaded,
          last_text, typing_timer, server_combo, model_combo, worker_thread,
          threads, main_events, status_label>>

\* an absent value is the empty sequence, a present value v is <<v>>
None == <<>>

Some(v) == <<v>>

(***************************************************************************)
(* Program constant and bounds of the model.                               *)
(***************************************************************************)
max_states == 50

MaxRecords == 52   \* add_state calls by the caller on one document (Spec)
MaxUndos == 1      \* popping undo() calls on one document (Spec)
MaxEdits == 3      \* user edits of the editor text (SpecEditor)
MaxCreated == 2    \* documents and folders created by the user
MaxMoves == 2      \* drops and moves in the file tree (SpecTree)
MaxRenames == 1    \* renames in the file tree
MaxPad == 42       \* characters before and after the match (SpecExcerpt)
MaxOpens == 1      \* files opened (SpecOpen, SpecProject)
MaxSaves == 2      \* save_to_file calls (SpecSave)
MaxRequests == 2   \* commentary threads started (SpecCommentary)

(***************************************************************************)
(* Sequence helpers (Python list operations).                              *)
(***************************************************************************)
Last(s) == s[Len(s)]

Front(s) == SubSeq(s, 1, Len(s) - 1)

Range(s) == {s[i] : i \in 1..Len(s)}

\* list.pop(0) after an append that made the list longer than max_states
EvictOldest(s) == IF Len(s) > max_states THEN Tail(s) ELSE s

\* the last n elements of s (all of s when it has fewer)
LastN(s, n) == IF Len(s) <= n THEN s ELSE SubSeq(s, Len(s) - n + 1, Len(s))

(***************************************************************************)
(* LangoTangoDocument.  A document is the record of its fields; a content  *)
(* is any value (copy.deepcopy of a value is the value).                   *)
(***************************************************************************)
\* mutant: evicts as soon as the stack holds max_states entries
add_state_evicts_early(d, content) ==
    LET pushed == Append(d.undo_stack, content)
    IN  [d EXCEPT !.undo_stack = IF Len(pushed) >= max_states THEN Tail(pushed) ELSE pushed,
                  !.redo_stack = <<>>]

\* mutant: evicts only when the stack holds more than max_states + 1 entries
add_state_evicts_late(d, content) ==
    LET pushed == Append(d.undo_stack, content)
    IN  [d EXCEPT !.undo_stack = IF Len(pushed) > max_states + 1 THEN Tail(pushed) ELSE pushed,
                  !.redo_stack = <<>>]

\* mutant: does not clear redo_stack
add_state_keeps_redo(d, content) ==
    [d EXCEPT !.undo_stack = EvictOldest(Append(d.undo_stack, content))]

add_state(d, content) ==
    [d EXCEPT !.undo_stack = EvictOldest(Append(d.undo_stack, content)),
              !.redo_stack = <<>>]

\* __init__: the fields, then add_state(self.content)
LangoTangoDocument(name, content) ==
    add_state([name |-> name, content |-> content,
               undo_stack |-> <<>>, redo_stack |-> <<>>], content)

\* mutant: the popped state is not pushed on redo_stack
undo_forgets_popped(d) ==
    IF Len(d.undo_stack) > 1
    THEN [doc |-> [d EXCEPT !.undo_stack = Front(d.undo_stack)],
          ret |-> Last(Front(d.undo_stack))]
    ELSE [doc |-> d, ret |-> d.content]

\* undo(): the document after the call and the value returned
undo(d) ==
    IF Len(d.undo_stack) > 1
    THEN LET current == Last(d.undo_stack)
             rest == Front(d.undo_stack)
         IN  [doc |-> [d EXCEPT !.undo_stack = rest,
                                !.redo_stack = EvictOldest(Append(d.redo_stack, current))],
              ret |-> Last(rest)]
    ELSE [doc |-> d, ret |-> d.content]

\* redo(): the document after the call and the value returned
redo(d) ==
    IF d.redo_stack # <<>>
    THEN LET current == Last(d.redo_stack)
         IN  [doc |-> [d EXCEPT !.redo_stack = Front(d.redo_stack),
                                !.undo_stack = EvictOldest(Append(d.undo_stack, current))],
              ret |-> current]
    ELSE [doc |-> d, ret |-> d.content]

to_dict(d) ==
    [name |-> d.name, content |-> d.content, type |-> "document",
     undo_stack |-> d.undo_stack, redo_stack |-> d.redo_stack]

\* mutant: the fields are set without running the constructor's add_state
from_dict_without_initial_state(data) ==
    [name |-> data["name"], content |-> data["content"],
     undo_stack |-> IF "undo_stack" \in DOMAIN data THEN data["undo_stack"] ELSE <<>>,
     redo_stack |-> IF "redo_stack" \in DOMAIN data THEN data["redo_stack"] ELSE <<>>]

\* mutant: the constructor only, the stacks of the data are not taken
from_dict_new_history(data) == LangoTangoDocument(data["name"], data["content"])

\* from_dict: the constructor, then the stacks of the data when it has them
from_dict(data) ==
    LET d0 == LangoTangoDocument(data["name"], data["content"])
        d1 == IF "undo_stack" \in DOMAIN data
              THEN [d0 EXCEPT !.undo_stack = data["undo_stack"]] ELSE d0
    IN  IF "redo_stack" \in DOMAIN data
        THEN [d1 EXCEPT !.redo_stack = data["redo_stack"]] ELSE d1

\* a persisted document record without the keys in `missing`
WithoutKeys(data, missing) == [k \in (DOMAIN data) \ missing |-> data[k]]

(***************************************************************************)
(* Spec: one document, its methods called in any order.  The contents are  *)
(* numbered in the order they are recorded: the document is constructed    *)
(* with content 0 and the n-th add_state call records content n.           *)
(***************************************************************************)
HistoryInit ==
    /\ doc = LangoTangoDocument("Untitled", 0)
    /\ recorded = <<0>>
    /\ nrec = 0
    /\ nundo = 0
    /\ loaded = FALSE
    /\ h_op = "init"
    /\ h_ret = None
    /\ h_pre = doc
    /\ h_undo = None
    /\ h_dead = {}

\* document_changed, lines 1342-1345: the caller stores the new content in
\* the content field and records it
Record ==
    /\ nrec < MaxRecords
    /\ LET x == nrec + 1
       IN  /\ doc' = add_state([doc EXCEPT !.content = x], x)
           /\ recorded' = IF recorded = <<>> THEN <<>> ELSE Append(recorded, x)
    /\ nrec' = nrec + 1
    /\ h_op' = "add_state"
    /\ h_ret' = None
    /\ h_pre' = doc
    /\ h_undo' = None
    /\ h_dead' = h_dead \cup Range(doc.redo_stack)
    /\ UNCHANGED <<nundo, loaded, editorVars, treeVars>>

Undo ==
    /\ Len(doc.undo_stack) > 1 => nundo < MaxUndos
    /\ doc' = undo(doc).doc
    /\ h_ret' = Some(undo(doc).ret)
    /\ h_op' = "undo"
    /\ h_pre' = doc
    /\ h_undo' = IF Len(doc.undo_stack) > 1
                 THEN Some([before |-> doc, popped |-> Last(doc.undo_stack)])
                 ELSE None
    /\ nundo' = IF Len(doc.undo_stack) > 1 THEN nundo + 1 ELSE nundo
    /\ recorded' = <<>>
    /\ UNCHANGED <<nrec, loaded, h_dead, editorVars, treeVars>>

Redo ==
    /\ doc' = redo(doc).doc
    /\ h_ret' = Some(redo(doc).ret)
    /\ h_op' = "redo"
    /\ h_pre' = doc
    /\ h_undo' = IF h_op = "undo" THEN h_undo ELSE None
    /\ recorded' = <<>>
    /\ UNCHANGED <<nrec, nundo, loaded, h_dead, editorVars, treeVars>>

\* file_tree_clicked, line 1707: the caller stores the editor's content in
\* the content field without recording it; after undo_document or
\* redo_document the editor shows the top of undo_stack
StoreContent ==
    /\ Last(doc.undo_stack) # doc.content
    /\ doc' = [doc EXCEPT !.content = Last(doc.undo_stack)]
    /\ h_op' = "store"
    /\ h_ret' = None
    /\ h_pre' = doc
    /\ h_undo' = None
    /\ recorded' = <<>>
    /\ UNCHANGED <<nrec, nundo, loaded, h_dead, editorVars, treeVars>>

\* save then open: the document is replaced by from_dict of what to_dict
\* wrote; an older file may lack the undo_stack or redo_stack key.  A
\* behaviour reopens the document once.
Reload ==
    \E missing \in SUBSET {"undo_stack", "redo_stack"} :
        /\ ~loaded
        /\ loaded' = TRUE
        /\ doc' = from_dict(WithoutKeys(to_dict(doc), missing))
        /\ h_op' = "from_dict"
        /\ h_ret' = None
        /\ h_pre' = doc
        /\ h_undo' = None
        /\ recorded' = <<>>
        /\ h_dead' = {}
        /\ UNCHANGED <<nrec, nundo, editorVars, treeVars>>

NextHistory == Record \/ Undo \/ Redo \/ StoreContent \/ Reload

\* SpecStacks: add_state, undo and redo in any order and number.  The
\* content recorded is numbered by the height of undo_stack at the call.
RecordOnTop ==
    /\ nrec < MaxRecords
    /\ LET x == Len(doc.undo_stack)
       IN  doc' = add_state([doc EXCEPT !.content = x], x)
    /\ nrec' = nrec + 1
    /\ recorded' = <<>>
    /\ h_op' = "add_state"
    /\ h_ret' = None
    /\ h_pre' = doc
    /\ h_undo' = None
    /\ UNCHANGED <<nundo, loaded, h_dead, editorVars, treeVars>>

UndoAny ==
    /\ doc' = undo(doc).doc
    /\ h_ret' = Some(undo(doc).ret)
    /\ h_op' = "undo"
    /\ h_pre' = doc
    /\ h_undo' = None
    /\ recorded' = <<>>
    /\ UNCHANGED <<nrec, nundo, loaded, h_dead, editorVars, treeVars>>

RedoAny ==
    /\ doc' = redo(doc).doc
    /\ h_ret' = Some(redo(doc).ret)
    /\ h_op' = "redo"
    /\ h_pre' = doc
    /\ h_undo' = None
    /\ recorded' = <<>>
    /\ UNCHANGED <<nrec, nundo, loaded, h_dead, editorVars, treeVars>>

NextStacks == RecordOnTop \/ UndoAny \/ RedoAny

(***************************************************************************)
(* The editor widget and the two converters.  A QTextDocument is a         *)
(* sequence of blocks, never empty; a block has an alignment and a         *)
(* sequence of fragments, each a non-empty text in one character format.   *)
(* A JSON content is a sequence of block records; a key may be missing.    *)
(* Texts hold no line break.                                               *)
(***************************************************************************)
\* dict.get(key, default)
Get(r, key, default) == IF key \in DOMAIN r THEN r[key] ELSE default

\* the QTextCharFormat json_to_qtextedit builds for a span (lines 3327-3337)
\* as qtextedit_to_json reads it back (lines 3356-3367): the foreground is
\* set only for a colour that is present, not empty and not "#000000", and
\* an unset foreground reads as "#000000"
CharFormat(span) ==
    [font_family |-> Get(span, "font_family", "Courier New"),
     font_size |-> Get(span, "font_size", 12),
     bold |-> Get(span, "bold", FALSE),
     italic |-> Get(span, "italic", FALSE),
     underline |-> Get(span, "underline", FALSE),
     highlight |-> Get(span, "highlight", FALSE),
     color |-> IF Get(span, "color", "") \in {"", "#000000"}
               THEN "#000000" ELSE span["color"]]

FormatOf(frag) == [k \in (DOMAIN frag) \ {"text"} |-> frag[k]]

\* cursor.setCharFormat(fmt); cursor.insertText(text): an empty text inserts
\* nothing, and a text in the format of the fragment before it extends that
\* fragment
InsertText(frags, fmt, text) ==
    IF text = "" THEN frags
    ELSE IF frags # <<>> /\ FormatOf(Last(frags)) = fmt
         THEN Append(Front(frags), [Last(frags) EXCEPT !.text = @ \o text])
         ELSE Append(frags, [text |-> text] @@ fmt)

RECURSIVE InsertSpans(_, _)
InsertSpans(frags, spans) ==
    IF spans = <<>> THEN frags
    ELSE InsertSpans(InsertText(frags, CharFormat(Head(spans)),
                                Get(Head(spans), "text", "")),
                     Tail(spans))

\* text_edit.clear(): one empty block, aligned left
ClearedEditor == <<[alignment |-> 1, frags |-> <<>>]>>

json_to_qtextedit(json_blocks) ==
    IF json_blocks = <<>> THEN ClearedEditor
    ELSE [i \in 1..Len(json_blocks) |->
            [alignment |-> Get(json_blocks[i], "alignment", 1),
             frags |-> InsertSpans(<<>>, Get(json_blocks[i], "spans", <<>>))]]

qtextedit_to_json(text_edit) ==
    [i \in 1..Len(text_edit) |->
        [alignment |-> text_edit[i].alignment, spans |-> text_edit[i].frags]]

\* SpecContent: the contents converted.  A span has every formatting field
\* and a colour or none; a content has no block, one block or two.
Spans ==
    LET fields == [text : {"a"}, font_family : {"Courier New"}, font_size : {12},
                   bold : BOOLEAN, italic : BOOLEAN, underline : BOOLEAN,
                   highlight : BOOLEAN]
    IN  fields \cup {span @@ [color |-> colour] :
                        span \in fields, colour \in {"#000000", "#ff0000"}}

PlainSpan == [text |-> "a", font_family |-> "Courier New", font_size |-> 12,
              bold |-> FALSE, italic |-> FALSE, underline |-> FALSE,
              highlight |-> FALSE, color |-> "#000000"]

\* Qt.AlignLeft, Qt.AlignRight, Qt.AlignHCenter, Qt.AlignJustify
Alignments == {1, 2, 4, 8}

Contents ==
    {<<>>}
      \cup {<<[alignment |-> a, spans |-> <<>>]>> : a \in Alignments}
      \cup {<<[alignment |-> a, spans |-> <<span>>]>> : a \in Alignments, span \in Spans}
      \cup {<<[alignment |-> a, spans |-> <<PlainSpan, [PlainSpan EXCEPT !.bold = TRUE]>>],
              [alignment |-> b, spans |-> <<PlainSpan>>]>> : a, b \in Alignments}

\* json_to_qtextedit(content, text_edit) and then qtextedit_to_json(text_edit)
call_converters ==
    \E content \in Contents :
        /\ converted = None
        /\ converted' = Some([content |-> content,
                              back |-> qtextedit_to_json(json_to_qtextedit(content))])
        /\ h_op' = "convert"
        /\ UNCHANGED <<historyVars, editorVars, h_ret, h_pre, items, ncreated,
                       nmove, h_drop, windowVars, folder_name, nrename, nopen,
                       compiled, results, excerpt, h_move, h_emptied, h_file,
                       extraVars, saveVars>>

NextContent == call_converters

(***************************************************************************)
(* The window after initialize_project: the document "Hello.lango" is in   *)
(* the root folder and open in the editor.  Objects are named by identity: *)
(* "root", "research", "trash", "hello", and "item1", "item2", ... for     *)
(* what the user creates.                                                  *)
(***************************************************************************)
NoDocument == "None"

\* initialize_project, lines 1020-1032: one block record without spans
HelloContent ==
    <<[text |-> "It takes two to LangoTango!", font_family |-> "Courier New",
       font_size |-> 12, bold |-> FALSE, italic |-> FALSE,
       underline |-> FALSE, highlight |-> FALSE, alignment |-> 1]>>

\* what the user can make of the editor text with one change
TypedSpan(text, bold) ==
    [text |-> text, font_family |-> "Courier New", font_size |-> 12,
     bold |-> bold, italic |-> FALSE, underline |-> FALSE,
     highlight |-> FALSE, color |-> "#000000"]

TypedTexts ==
    {ClearedEditor,
     <<[alignment |-> 1, frags |-> <<TypedSpan("a", FALSE)>>]>>,
     <<[alignment |-> 1, frags |-> <<TypedSpan("a", FALSE), TypedSpan("b", TRUE)>>]>>}

\* file_tree_clicked on a folder, lines 1738-1749: the folder's name, centred
FolderTitle(name) ==
    <<[alignment |-> 132,
       frags |-> <<[TypedSpan(name, FALSE) EXCEPT !.font_size = 16]>>]>>

EditorInit ==
    /\ documents = [d \in {"hello"} |-> LangoTangoDocument("Hello.lango", HelloContent)]
    /\ current_document = "hello"
    /\ text_editor = json_to_qtextedit(HelloContent)
    /\ undo_shortcut = TRUE
    /\ redo_shortcut = TRUE
    /\ nedit = 0

\* undo_shortcut.setEnabled(...), redo_shortcut.setEnabled(...)
SetShortcuts(d) ==
    /\ undo_shortcut' = (Len(d.undo_stack) > 1)
    /\ redo_shortcut' = (Len(d.redo_stack) > 0)

\* the window as the record of its fields and objects
Window ==
    [items |-> items, folder_name |-> folder_name, documents |-> documents,
     root_folder |-> root_folder, research_folder |-> research_folder,
     trash_folder |-> trash_folder, current_document |-> current_document,
     text_editor |-> text_editor, undo_shortcut |-> undo_shortcut,
     redo_shortcut |-> redo_shortcut]

\* document_changed in the window w
document_changed(w) ==
    IF w.current_document = NoDocument THEN w
    ELSE LET content == qtextedit_to_json(w.text_editor)
             d == w.documents[w.current_document]
         IN  IF content = d.content THEN w
             ELSE LET changed == add_state([d EXCEPT !.content = content], content)
                  IN  [w EXCEPT !.documents[w.current_document] = changed,
                                !.undo_shortcut = Len(changed.undo_stack) > 1,
                                !.redo_shortcut = Len(changed.redo_stack) > 0]

\* the editor emits textChanged: document_changed is connected to it in
\* setup_text_editor and again in setup_connections, and runs twice
textChanged(w) == document_changed(document_changed(w))

\* the user changes the text
Edit ==
    \E typed \in TypedTexts \ {text_editor} :
        LET w == textChanged([Window EXCEPT !.text_editor = typed])
        IN  /\ nedit < MaxEdits
            /\ nedit' = nedit + 1
            /\ text_editor' = typed
            /\ documents' = w.documents
            /\ undo_shortcut' = w.undo_shortcut
            /\ redo_shortcut' = w.redo_shortcut
            /\ h_op' = "edit"
            /\ UNCHANGED <<current_document, historyVars, treeVars, h_ret, h_pre>>

\* undo_document and redo_document: `result` is undo() or redo() of the
\* current document; the editor's signals are blocked while it is loaded
ApplyHistory(result) ==
    /\ documents' = [documents EXCEPT ![current_document] = result.doc]
    /\ IF result.ret # qtextedit_to_json(text_editor)
       THEN /\ text_editor' = json_to_qtextedit(result.ret)
            /\ SetShortcuts(result.doc)
       ELSE UNCHANGED <<text_editor, undo_shortcut, redo_shortcut>>

\* the undo shortcut is activated
undo_document ==
    /\ undo_shortcut
    /\ IF current_document # NoDocument
       THEN ApplyHistory(undo(documents[current_document]))
       ELSE UNCHANGED <<documents, text_editor, undo_shortcut, redo_shortcut>>
    /\ h_op' = "undo_document"
    /\ UNCHANGED <<current_document, nedit, historyVars, treeVars, h_ret, h_pre>>

\* the redo shortcut is activated
redo_document ==
    /\ redo_shortcut
    /\ IF current_document # NoDocument
       THEN ApplyHistory(redo(documents[current_document]))
       ELSE UNCHANGED <<documents, text_editor, undo_shortcut, redo_shortcut>>
    /\ h_op' = "redo_document"
    /\ UNCHANGED <<current_document, nedit, historyVars, treeVars, h_ret, h_pre>>

\* file_tree_clicked on a document of the tree
file_tree_clicked_document ==
    \E data \in DOMAIN documents :
        LET stored == IF current_document # NoDocument
                      THEN [documents EXCEPT ![current_document].content =
                                qtextedit_to_json(text_editor)]
                      ELSE documents
        IN  /\ documents' = stored
            /\ current_document' = data
            /\ text_editor' = IF stored[data].content = <<>> THEN ClearedEditor
                              ELSE json_to_qtextedit(stored[data].content)
            /\ SetShortcuts(stored[data])
            /\ h_op' = "select"
            /\ UNCHANGED <<nedit, historyVars, treeVars, h_ret, h_pre>>

\* file_tree_clicked on a folder of the tree
file_tree_clicked_folder ==
    /\ text_editor' = FolderTitle("My Documents")
    /\ current_document' = NoDocument
    /\ undo_shortcut' = FALSE
    /\ redo_shortcut' = FALSE
    /\ h_op' = "select_folder"
    /\ UNCHANGED <<documents, nedit, historyVars, treeVars, h_ret, h_pre>>

(***************************************************************************)
(* The workspace tree.  A folder is the key of its items list in `items`,  *)
(* a document the key of its record in `documents`.  The file tree widget  *)
(* is what update_file_tree builds from the folders: one top-level item    *)
(* for root, Research and Trash, and below an item of a folder one item    *)
(* for every entry of the folder's items.  A widget item is the path of    *)
(* positions that leads to it: <<1>> is the root item, <<1, 2>> the item   *)
(* of the second entry of the root folder.                                 *)
(***************************************************************************)
IsFolder(data) == data \in DOMAIN items

\* the top-level items, in the order update_file_tree adds them
TopLevel == <<root_folder, research_folder, trash_folder>>

RECURSIVE Reach(_)
Reach(S) ==
    LET next == S \cup UNION {Range(items[f]) : f \in S \cap DOMAIN items}
    IN  IF next = S THEN S ELSE Reach(next)

\* everything inside folder f, at any depth
Descendants(f) == Reach(Range(items[f]))

\* a folder that is inside itself
Cyclic == \E f \in DOMAIN items : f \in Descendants(f)

\* the three top-level folders and everything inside them
InWorkspace == Reach(Range(TopLevel))

\* update_file_tree's add_items does not return when it reaches a folder
\* that is inside itself
Endless == \E f \in InWorkspace \cap DOMAIN items : f \in Descendants(f)

\* item.data(0, Qt.UserRole)
RECURSIVE DataOf(_)
DataOf(item) ==
    IF Len(item) = 1 THEN TopLevel[item[1]]
    ELSE items[DataOf(Front(item))][Last(item)]

\* add_items: the widget items below the item `item` of folder `folder`
RECURSIVE add_items(_, _)
add_items(item, folder) ==
    UNION {{Append(item, i)} \cup
           (IF IsFolder(items[folder][i])
            THEN add_items(Append(item, i), items[folder][i]) ELSE {})
           : i \in 1..Len(items[folder])}

\* the widget items after update_file_tree; when the rebuild never
\* completes the handlers below have no item to act on
TreeItems ==
    IF Endless THEN {}
    ELSE UNION {{<<t>>} \cup add_items(<<t>>, TopLevel[t]) : t \in 1..Len(TopLevel)}

\* item, item.parent(), item.parent().parent(), ...
SelfAndAncestors(item) == {SubSeq(item, 1, k) : k \in 1..Len(item)}

\* list.remove(x): the list without the first occurrence of x
RemoveFirst(s, x) ==
    LET i == CHOOSE k \in 1..Len(s) : s[k] = x /\ \A j \in 1..(k - 1) : s[j] # x
    IN  SubSeq(s, 1, i - 1) \o SubSeq(s, i + 1, Len(s))

\* list.insert(index, x), index counted from 0; past the end it appends
InsertAt(s, index, x) ==
    IF index >= Len(s) THEN Append(s, x)
    ELSE SubSeq(s, 1, index) \o <<x>> \o SubSeq(s, index + 1, Len(s))

NewId == "item" \o ToString(ncreated + 1)

NoDrop == [folder |-> FALSE, inside |-> FALSE, accepted |-> FALSE, changed |-> FALSE]

TreeInit ==
    /\ root_folder = "root"
    /\ research_folder = "research"
    /\ trash_folder = "trash"
    /\ items = [f \in {"root", "research", "trash"} |->
                  IF f = "root" THEN <<"hello">> ELSE <<>>]
    /\ folder_name = [f \in {"root", "research", "trash"} |->
                        IF f = "root" THEN "My Documents"
                        ELSE IF f = "research" THEN "Research" ELSE "Trash"]
    /\ ncreated = 0
    /\ nmove = 0
    /\ nrename = 0
    /\ nopen = 0
    /\ compiled = None
    /\ results = None
    /\ excerpt = None
    /\ h_drop = NoDrop
    /\ h_move = None
    /\ h_emptied = {}
    /\ h_file = None
    /\ converted = None
    /\ current_file_path = None
    /\ saving = None
    /\ disk = [target |-> None, temp |-> None, backups |-> <<>>]
    /\ crashed = FALSE
    /\ nsave = 0
    /\ h_save = None
    /\ reloaded = None
    /\ last_text = ""
    /\ typing_timer = FALSE
    /\ server_combo = "Ollama"
    /\ model_combo = "llama"
    /\ worker_thread = None
    /\ threads = <<>>
    /\ main_events = <<>>
    /\ status_label = "Connected to Ollama"

\* the folders the user can pick as the parent of a new file or folder
ShownFolders == {DataOf(item) : item \in TreeItems} \cap DOMAIN items

\* what a handler of the file tree leaves alone besides the folders
treeFrame == <<current_document, text_editor, undo_shortcut, redo_shortcut,
               nedit, historyVars, h_ret, h_pre, windowVars, nopen, excerpt,
               h_file, laterVars>>

\* the outputs of an earlier compile or search are of the tree as it was
StaleOutputs == compiled' = None /\ results' = None

create_new_file(parent_folder) ==
    /\ ~Endless
    /\ ncreated' = ncreated + 1
    /\ documents' = (NewId :> LangoTangoDocument(NewId \o ".lango", <<>>)) @@ documents
    /\ items' = [items EXCEPT ![parent_folder] = Append(@, NewId)]
    /\ h_op' = "create_new_file"
    /\ h_drop' = NoDrop
    /\ h_move' = None
    /\ StaleOutputs
    /\ UNCHANGED <<treeFrame, nmove, nrename, folder_name, h_emptied>>

create_new_folder(parent_folder) ==
    /\ ~Endless
    /\ ncreated' = ncreated + 1
    /\ items' = (NewId :> <<>>) @@ [items EXCEPT ![parent_folder] = Append(@, NewId)]
    /\ folder_name' = (NewId :> NewId) @@ folder_name
    /\ h_op' = "create_new_folder"
    /\ h_drop' = NoDrop
    /\ h_move' = None
    /\ StaleOutputs
    /\ UNCHANGED <<treeFrame, documents, nmove, nrename, h_emptied>>

\* the items lists after tree_drop_event has moved dragged_item to target_item
Dropped(dragged_item, target_item) ==
    LET dragged_data == DataOf(dragged_item)
        target_data == DataOf(target_item)
        removed == IF Len(dragged_item) > 1
                   THEN [items EXCEPT ![DataOf(Front(dragged_item))] =
                            RemoveFirst(@, dragged_data)]
                   ELSE items
    IN  IF IsFolder(target_data)
        THEN [removed EXCEPT ![target_data] = Append(@, dragged_data)]
        ELSE [removed EXCEPT ![DataOf(Front(target_item))] =
                 InsertAt(@, Last(target_item) - 1, dragged_data)]

\* lines 2002-2008: a folder is not dropped on its own item or below it
DropIgnored(dragged_item, target_item) ==
    /\ IsFolder(DataOf(dragged_item))
    /\ dragged_item \in SelfAndAncestors(target_item)

tree_drop_event(dragged_item, target_item) ==
    LET dragged_data == DataOf(dragged_item)
        target_data == DataOf(target_item)
        ignored == DropIgnored(dragged_item, target_item)
    IN  /\ ~Endless
        /\ nmove' = nmove + 1
        /\ items' = IF ignored THEN items ELSE Dropped(dragged_item, target_item)
        /\ h_op' = "drop"
        /\ h_drop' = [folder |-> IsFolder(dragged_data),
                      inside |-> /\ IsFolder(dragged_data)
                                 /\ target_data \in {dragged_data} \cup Descendants(dragged_data),
                      accepted |-> ~ignored,
                      changed |-> items' # items]
        /\ h_move' = None
        /\ StaleOutputs
        /\ UNCHANGED <<treeFrame, documents, ncreated, nrename, folder_name, h_emptied>>

\* move_to_trash without the test of the parent against the Trash folder
move_to_trash_inside_trash(item) ==
    /\ ~Endless
    /\ DataOf(item) \notin {research_folder, trash_folder}
    /\ nmove' = nmove + 1
    /\ items' = IF Len(item) > 1
                THEN LET removed == [items EXCEPT ![DataOf(Front(item))] =
                                        RemoveFirst(@, DataOf(item))]
                     IN  [removed EXCEPT ![trash_folder] = Append(@, DataOf(item))]
                ELSE items
    /\ h_op' = "move_to_trash"
    /\ h_drop' = NoDrop
    /\ h_move' = Some([data |-> DataOf(item),
                       source |-> IF Len(item) > 1 THEN DataOf(Front(item))
                                  ELSE NoDocument])
    /\ StaleOutputs
    /\ UNCHANGED <<treeFrame, documents, ncreated, nrename, folder_name, h_emptied>>

\* "Move to Trash" of the context menu, offered on every document and on
\* every folder other than Research and Trash
move_to_trash(item) ==
    /\ ~Endless
    /\ DataOf(item) \notin {research_folder, trash_folder}
    /\ nmove' = nmove + 1
    /\ items' = IF Len(item) > 1 /\ DataOf(Front(item)) # trash_folder
                THEN LET removed == [items EXCEPT ![DataOf(Front(item))] =
                                        RemoveFirst(@, DataOf(item))]
                     IN  [removed EXCEPT ![trash_folder] = Append(@, DataOf(item))]
                ELSE items
    /\ h_op' = "move_to_trash"
    /\ h_drop' = NoDrop
    /\ h_move' = Some([data |-> DataOf(item),
                       source |-> IF Len(item) > 1 THEN DataOf(Front(item))
                                  ELSE NoDocument])
    /\ StaleOutputs
    /\ UNCHANGED <<treeFrame, documents, ncreated, nrename, folder_name, h_emptied>>

\* "Move to Research" of the context menu, offered on a document whose
\* parent item is not the Research folder's
move_to_research(item) ==
    /\ ~Endless
    /\ ~IsFolder(DataOf(item))
    /\ DataOf(Front(item)) # research_folder
    /\ nmove' = nmove + 1
    /\ items' = LET removed == [items EXCEPT ![DataOf(Front(item))] =
                                   RemoveFirst(@, DataOf(item))]
                IN  [removed EXCEPT ![research_folder] = Append(@, DataOf(item))]
    /\ h_op' = "move_to_research"
    /\ h_drop' = NoDrop
    /\ h_move' = None
    /\ StaleOutputs
    /\ UNCHANGED <<treeFrame, documents, ncreated, nrename, folder_name, h_emptied>>

\* "Empty Trash" of the Trash folder's context menu, offered while the
\* Trash folder has items; `reply` is the answer to the confirmation
empty_trash(reply) ==
    /\ ~Endless
    /\ Len(items[trash_folder]) > 0
    /\ items' = IF reply THEN [items EXCEPT ![trash_folder] = <<>>] ELSE items
    /\ h_emptied' = IF reply THEN h_emptied \cup Descendants(trash_folder)
                    ELSE h_emptied
    /\ h_op' = IF reply THEN "empty_trash" ELSE "empty_trash_declined"
    /\ h_drop' = NoDrop
    /\ h_move' = None
    /\ StaleOutputs
    /\ UNCHANGED <<treeFrame, documents, ncreated, nmove, nrename, folder_name>>

\* the names the user types in the rename dialog
RenameTo == {"Abe", "Zed.lango"}

\* "Rename" of the context menu, offered on every document and on every
\* folder other than Research and Trash, with a non-empty name accepted
rename_item(item, name) ==
    /\ ~Endless
    /\ DataOf(item) \notin {research_folder, trash_folder}
    /\ nrename' = nrename + 1
    /\ IF IsFolder(DataOf(item))
       THEN /\ folder_name' = [folder_name EXCEPT ![DataOf(item)] = name]
            /\ UNCHANGED documents
       ELSE /\ documents' = [documents EXCEPT ![DataOf(item)].name = name]
            /\ UNCHANGED folder_name
    /\ h_op' = "rename"
    /\ h_drop' = NoDrop
    /\ h_move' = None
    /\ StaleOutputs
    /\ UNCHANGED <<treeFrame, items, ncreated, nmove, h_emptied>>

(***************************************************************************)
(* Plain text, compile and search.  A text is a string; the texts of the   *)
(* model are written in the letters of LowerOf and blanks.                 *)
(***************************************************************************)
\* str.lower() of one character
LowerOf(c) ==
    IF c = "A" THEN "a" ELSE IF c = "B" THEN "b" ELSE IF c = "X" THEN "x" ELSE c

\* str.lower()
RECURSIVE Lower(_)
Lower(text) ==
    IF text = "" THEN "" ELSE LowerOf(SubSeq(text, 1, 1)) \o Lower(Tail(text))

\* str.find(query): the index, from 0, of the first occurrence, or -1
Find(text, query) ==
    LET hits == {i \in 0..(Len(text) - Len(query)) :
                    SubSeq(text, i + 1, i + Len(query)) = query}
    IN  IF hits = {} THEN -1 ELSE CHOOSE i \in hits : \A j \in hits : i <= j

IsSpace(c) == c \in {" ", "\n", "\t"}

\* str.strip()
RECURSIVE Strip(_)
Strip(text) ==
    IF text = "" THEN ""
    ELSE IF IsSpace(SubSeq(text, 1, 1)) THEN Strip(Tail(text))
    ELSE IF IsSpace(SubSeq(text, Len(text), Len(text)))
         THEN Strip(SubSeq(text, 1, Len(text) - 1))
    ELSE text

\* text[start:end] for 0 <= start <= end <= len(text)
Slice(text, start, end) == SubSeq(text, start + 1, end)

Min(a, b) == IF a <= b THEN a ELSE b

Max(a, b) == IF a >= b THEN a ELSE b

\* str.endswith(suffix)
EndsWith(text, suffix) ==
    /\ Len(text) >= Len(suffix)
    /\ SubSeq(text, Len(text) - Len(suffix) + 1, Len(text)) = suffix

\* str.startswith(prefix)
StartsWith(text, prefix) ==
    /\ Len(text) >= Len(prefix)
    /\ SubSeq(text, 1, Len(prefix)) = prefix

\* the text of the fragments of one block
RECURSIVE BlockText(_)
BlockText(frags) ==
    IF frags = <<>> THEN "" ELSE Head(frags).text \o BlockText(Tail(frags))

\* QTextEdit.toPlainText(): the blocks' texts, a line break between blocks
RECURSIVE toPlainText(_)
toPlainText(text_edit) ==
    IF Len(text_edit) = 1 THEN BlockText(text_edit[1].frags)
    ELSE BlockText(text_edit[1].frags) \o "\n" \o toPlainText(Tail(text_edit))

\* temp_edit = QTextEdit(); json_to_qtextedit(content, temp_edit);
\* temp_edit.toPlainText()
PlainText(content) == toPlainText(json_to_qtextedit(content))

\* the default of get_excerpt's context_length parameter
context_length == 40

\* get_excerpt with "..." put in front of every excerpt that does not start
\* at the match
get_excerpt_marks_any_context(text, query) ==
    LET idx == Find(Lower(text), Lower(query))
        start == Max(0, idx - context_length)
        end == Min(Len(text), idx + Len(query) + context_length)
    IN  IF idx = -1 THEN ""
        ELSE (IF idx > 0 THEN "..." ELSE "") \o Strip(Slice(text, start, end))
                 \o (IF end < Len(text) THEN "..." ELSE "")

\* search_project.get_excerpt
get_excerpt(text, query) ==
    LET idx == Find(Lower(text), Lower(query))
        start == Max(0, idx - context_length)
        end == Min(Len(text), idx + Len(query) + context_length)
    IN  IF idx = -1 THEN ""
        ELSE (IF start > 0 THEN "..." ELSE "") \o Strip(Slice(text, start, end))
                 \o (IF end < Len(text) THEN "..." ELSE "")

\* the title get_compiled_content gives a document (lines 2287 and 2296)
Title(name) ==
    IF EndsWith(name, ".lango") THEN SubSeq(name, 1, Max(0, Len(name) - 7)) ELSE name

\* get_compiled_content without formatting: the chunks appended to
\* `content`, each with the object it was made for.  A heading chunk is
\* "\n", `hashes` times "#", " ", `text`, "\n\n"; a body chunk is `text`
\* and "\n\n".  `depth` is the depth of the object below the root folder.
Chunk(kind, of, text, hashes, depth) ==
    [kind |-> kind, of |-> of, text |-> text, hashes |-> hashes, depth |-> depth]

RECURSIVE process_folder(_, _)
RECURSIVE process_items(_, _)
\* the loop of process_folder over the rest `rest` of folder.items
process_items(rest, level) ==
    IF rest = <<>> THEN <<>>
    ELSE LET item == Head(rest)
         IN  (IF ~IsFolder(item)
              THEN <<Chunk("document", item, Title(documents[item].name),
                           level + 2, level + 1),
                     Chunk("body", item, PlainText(documents[item].content),
                           0, level + 1)>>
              ELSE <<Chunk("folder", item, folder_name[item], level + 1, level + 1)>>
                       \o process_folder(item, level + 1))
             \o process_items(Tail(rest), level)

\* process_folder with every folder's heading put after the folder's items
process_folder_heading_last(folder, level) ==
    IF folder = research_folder \/ folder = trash_folder THEN <<>>
    ELSE LET chunks == process_items(items[folder], level)
             IsHeading(chunk) == chunk.kind = "folder" /\ chunk.depth = level + 1
             NoHeading(chunk) == ~IsHeading(chunk)
         IN  SelectSeq(chunks, NoHeading) \o SelectSeq(chunks, IsHeading)

process_folder(folder, level) ==
    IF folder = research_folder \/ folder = trash_folder THEN <<>>
    ELSE process_items(items[folder], level)

get_compiled_content ==
    <<Chunk("project", root_folder, folder_name[root_folder], 1, 0)>>
        \o process_folder(root_folder, 0)

\* search_project: the results list, each result with its excerpt and its
\* document
RECURSIVE search_folder(_, _)
search_folder(rest, query) ==
    IF rest = <<>> THEN <<>>
    ELSE LET item == Head(rest)
         IN  (IF ~IsFolder(item)
              THEN LET plain_text == PlainText(documents[item].content)
                   IN  IF Find(Lower(plain_text), Lower(query)) # -1
                       THEN <<[name |-> get_excerpt(plain_text, query), data |-> item]>>
                       ELSE <<>>
              ELSE search_folder(items[item], query))
             \o search_folder(Tail(rest), query)

search_project(query) == search_folder(items[root_folder], query)

\* the compile dialog compiles the project
compile_project ==
    /\ ~Endless
    /\ compiled = None
    /\ compiled' = Some(get_compiled_content)
    /\ results' = None
    /\ h_op' = "compile"
    /\ h_drop' = NoDrop
    /\ h_move' = None
    /\ UNCHANGED <<treeFrame, documents, items, folder_name, ncreated, nmove,
                   nrename, h_emptied>>

\* what the user types in the search field; perform_search makes it lower
\* case and does not search for an empty text
Queries == {"a", "B"}

perform_search ==
    \E text \in Queries :
        /\ ~Endless
        /\ results' = Some([query |-> Lower(text), found |-> search_project(Lower(text))])
        /\ results' # results
        /\ compiled' = None
        /\ h_op' = "search"
        /\ h_drop' = NoDrop
        /\ h_move' = None
        /\ UNCHANGED <<treeFrame, documents, items, folder_name, ncreated, nmove,
                       nrename, h_emptied>>

\* n times the character fill
RECURSIVE Pad(_, _)
Pad(fill, n) == IF n = 0 THEN "" ELSE fill \o Pad(fill, n - 1)

\* get_excerpt on a text made of `before` characters that are no part of a
\* match, one occurrence of the query in some case, and `after` such
\* characters
call_get_excerpt ==
    \E before, after \in 0..MaxPad : \E fill \in {"x", " "} :
    \E word \in {"ab", "AB"} : \E query \in {"ab", "Ab"} :
        LET text == Pad(fill, before) \o word \o Pad(fill, after)
        IN  /\ excerpt = None
            /\ excerpt' = Some([text |-> text, query |-> query, idx |-> before,
                                after |-> after,
                                result |-> get_excerpt(text, query)])
            /\ h_op' = "get_excerpt"
            /\ UNCHANGED <<historyVars, editorVars, h_ret, h_pre, items, ncreated,
                           nmove, h_drop, windowVars, folder_name, nrename, nopen,
                           compiled, results, h_move, h_emptied, h_file,
                           laterVars>>

NextExcerpt == call_get_excerpt

(***************************************************************************)
(* Opening a file.  A parsed file is a dict: a function from keys to       *)
(* values, a key may be missing.  A load works on the record of the        *)
(* window, so that a load that fails half way leaves the assignments it    *)
(* has made.  Objects made by a load are named after the load and their    *)
(* place in the data.                                                      *)
(***************************************************************************)
\* LangoTangoDocument.from_dict raises KeyError
DocumentRaises(data) ==
    ~({"name", "content", "created", "modified"} \subseteq DOMAIN data)

\* LangoTangoFolder.from_dict raises KeyError, here or in an item it loads
RECURSIVE FolderRaises(_)
FolderRaises(data) ==
    \/ ~({"name", "created", "modified", "items"} \subseteq DOMAIN data)
    \/ \E i \in 1..Len(data["items"]) :
          LET item_data == data["items"][i]
          IN  \/ "type" \notin DOMAIN item_data
              \/ item_data["type"] = "document" /\ DocumentRaises(item_data)
              \/ item_data["type"] = "folder" /\ FolderRaises(item_data)

\* the item records LangoTangoFolder.from_dict makes an object of
IsLoaded(item_data) == item_data["type"] \in {"document", "folder"}

\* LangoTangoFolder.from_dict(data) of data that does not raise: the window
\* record with the new folder, named id, and everything in it
RECURSIVE FolderFromDict(_, _, _)
RECURSIVE ItemsFromDict(_, _, _, _)
ItemsFromDict(w, ids, made, i) ==
    IF i > Len(made) THEN w
    ELSE IF made[i]["type"] = "document"
         THEN ItemsFromDict([w EXCEPT !.documents = (ids[i] :> from_dict(made[i])) @@ @],
                            ids, made, i + 1)
         ELSE ItemsFromDict(FolderFromDict(w, ids[i], made[i]), ids, made, i + 1)

FolderFromDict(w, id, data) ==
    LET made == SelectSeq(data["items"], IsLoaded)
        ids == [i \in 1..Len(made) |-> id \o "." \o ToString(i)]
    IN  ItemsFromDict([w EXCEPT !.items = (id :> ids) @@ @,
                                !.folder_name = (id :> data["name"]) @@ @],
                      ids, made, 1)

\* the spans of block i of a content
SpansOf(json_blocks, i) == Get(json_blocks[i], "spans", <<>>)

\* the content json_to_qtextedit has put in the editor when it has inserted
\* the first j spans of block i
Inserted(json_blocks, i, j) ==
    LET block == json_blocks[i]
        cut == [k \in DOMAIN block |->
                   IF k = "spans" THEN SubSeq(block[k], 1, j) ELSE block[k]]
    IN  Append(SubSeq(json_blocks, 1, i - 1), cut)

\* the editor after each step of json_to_qtextedit: clear(), then for every
\* block its format and each of its spans
RECURSIVE StepsFrom(_, _, _)
StepsFrom(json_blocks, i, j) ==
    IF i > Len(json_blocks) THEN <<>>
    ELSE <<json_to_qtextedit(Inserted(json_blocks, i, j))>>
             \o (IF j < Len(SpansOf(json_blocks, i))
                 THEN StepsFrom(json_blocks, i, j + 1)
                 ELSE StepsFrom(json_blocks, i + 1, 0))

EditorSteps(json_blocks) == <<ClearedEditor>> \o StepsFrom(json_blocks, 1, 0)

\* the editor takes the contents `steps` one after the other; each change
\* emits textChanged
RECURSIVE Emit(_, _)
Emit(w, steps) ==
    IF steps = <<>> THEN w
    ELSE Emit(IF Head(steps) = w.text_editor THEN w
              ELSE textChanged([w EXCEPT !.text_editor = Head(steps)]),
              Tail(steps))

\* json_to_qtextedit(json_blocks, self.text_editor) with the editor's
\* signals not blocked
LoadEditor(w, json_blocks) == Emit(w, EditorSteps(json_blocks))

\* select_first_document.find_first_document below the root item
RECURSIVE find_first_document(_, _)
find_first_document(w, rest) ==
    IF rest = <<>> THEN NoDocument
    ELSE IF Head(rest) \notin DOMAIN w.items THEN Head(rest)
    ELSE LET result == find_first_document(w, w.items[Head(rest)])
         IN  IF result # NoDocument THEN result
             ELSE find_first_document(w, Tail(rest))

select_first_document(w) ==
    LET first_doc == find_first_document(w, w.items[w.root_folder])
    IN  IF first_doc = NoDocument THEN w
        ELSE LoadEditor([w EXCEPT !.current_document = first_doc],
                        w.documents[first_doc].content)

\* LangoTangoFolder(name)
NewFolder(w, id, name) ==
    [w EXCEPT !.items = (id :> <<>>) @@ @, !.folder_name = (id :> name) @@ @]

\* load_workspace(data) for the load named gen: the window when it returns
\* or raises, and whether it raised
load_workspace(w, data, gen) ==
    LET w1 == [FolderFromDict(w, gen \o ".root", data["root_folder"])
                  EXCEPT !.root_folder = gen \o ".root"]
        w2 == IF "research_folder" \in DOMAIN data
              THEN [FolderFromDict(w1, gen \o ".research", data["research_folder"])
                       EXCEPT !.research_folder = gen \o ".research"]
              ELSE [NewFolder(w1, gen \o ".research", "Research")
                       EXCEPT !.research_folder = gen \o ".research"]
        w3 == IF "trash_folder" \in DOMAIN data
              THEN [FolderFromDict(w2, gen \o ".trash", data["trash_folder"])
                       EXCEPT !.trash_folder = gen \o ".trash"]
              ELSE [NewFolder(w2, gen \o ".trash", "Trash")
                       EXCEPT !.trash_folder = gen \o ".trash"]
        has_current == "current_document" \in DOMAIN data
                          /\ data["current_document"] # None
        w4 == IF has_current
              THEN LET d == from_dict(data["current_document"][1])
                   IN  LoadEditor([w3 EXCEPT !.documents = ((gen \o ".current") :> d) @@ @,
                                             !.current_document = gen \o ".current"],
                                  d.content)
              ELSE Emit([w3 EXCEPT !.current_document = NoDocument], <<ClearedEditor>>)
    IN  IF FolderRaises(data["root_folder"]) THEN [w |-> w, raised |-> TRUE]
        ELSE IF "research_folder" \in DOMAIN data /\ FolderRaises(data["research_folder"])
             THEN [w |-> w1, raised |-> TRUE]
        ELSE IF "trash_folder" \in DOMAIN data /\ FolderRaises(data["trash_folder"])
             THEN [w |-> w2, raised |-> TRUE]
        ELSE IF has_current /\ DocumentRaises(data["current_document"][1])
             THEN [w |-> w3, raised |-> TRUE]
        ELSE [w |-> select_first_document(w4), raised |-> FALSE]

\* load_document(data)
load_document(w, data, gen) ==
    IF DocumentRaises(data) THEN [w |-> w, raised |-> TRUE]
    ELSE LET d == from_dict(data)
         IN  [w |-> LoadEditor([w EXCEPT !.documents = ((gen \o ".current") :> d) @@ @,
                                         !.current_document = gen \o ".current"],
                               d.content),
              raised |-> FALSE]

\* the body of open_document's try block for the chosen file
Opened(w, file, gen) ==
    IF file.json # "object" THEN [w |-> w, raised |-> TRUE]
    ELSE IF "root_folder" \in DOMAIN file.data THEN load_workspace(w, file.data, gen)
    ELSE IF "name" \in DOMAIN file.data THEN load_document(w, file.data, gen)
    ELSE [w |-> w, raised |-> TRUE]

\* the objects still referred to from the window
Live(w) ==
    LET RECURSIVE Inside(_)
        Inside(S) ==
            LET next == S \cup UNION {Range(w.items[f]) : f \in S \cap DOMAIN w.items}
            IN  IF next = S THEN S ELSE Inside(next)
    IN  Inside({w.root_folder, w.research_folder, w.trash_folder})
            \cup {w.current_document}

Restrict(f, S) == [x \in (DOMAIN f) \cap S |-> f[x]]

\* open_document with `file` chosen in the dialog; an exception ends in a
\* message box
open_document(file) ==
    LET gen == "open" \o ToString(nopen + 1)
        result == Opened(Window, file, gen)
        w == result.w
    IN  /\ ~Endless
        /\ nopen' = nopen + 1
        /\ items' = Restrict(w.items, Live(w))
        /\ folder_name' = Restrict(w.folder_name, Live(w))
        /\ documents' = Restrict(w.documents, Live(w))
        /\ root_folder' = w.root_folder
        /\ research_folder' = w.research_folder
        /\ trash_folder' = w.trash_folder
        /\ current_document' = w.current_document
        /\ text_editor' = w.text_editor
        /\ undo_shortcut' = w.undo_shortcut
        /\ redo_shortcut' = w.redo_shortcut
        /\ h_op' = IF result.raised THEN "open_failed" ELSE "open"
        /\ h_file' = Some(file)
        /\ current_file_path' = IF result.raised THEN current_file_path
                                ELSE Some("opened.lango")
        /\ h_drop' = NoDrop
        /\ h_move' = None
        /\ StaleOutputs
        /\ UNCHANGED <<historyVars, h_ret, h_pre, nedit, ncreated, nmove, nrename,
                       excerpt, h_emptied, converted, extraVars, saving, disk,
                       crashed,
                       nsave, h_save>>

\* new_document: the method is bound to no button, menu or shortcut
new_document ==
    LET made == NewId
        w == Emit([Window EXCEPT
                      !.documents = (made :> LangoTangoDocument("Untitled", <<>>)) @@ @,
                      !.current_document = made],
                  <<ClearedEditor>>)
    IN  /\ ncreated < MaxCreated
        /\ ncreated' = ncreated + 1
        /\ documents' = w.documents
        /\ current_document' = made
        /\ text_editor' = w.text_editor
        /\ undo_shortcut' = w.undo_shortcut
        /\ redo_shortcut' = w.redo_shortcut
        /\ h_op' = "new_document"
        /\ current_file_path' = None
        /\ h_drop' = NoDrop
        /\ h_move' = None
        /\ UNCHANGED <<historyVars, h_ret, h_pre, nedit, items, windowVars,
                       folder_name, nmove, nrename, nopen, compiled, results,
                       excerpt, h_emptied, h_file, converted, extraVars,
                       saving, disk,
                       crashed, nsave, h_save>>

(***************************************************************************)
(* The files of the model: what save_to_file writes for small workspaces,  *)
(* and the same with a key taken out or an item record of another type     *)
(* put in.                                                                 *)
(***************************************************************************)
\* a content as qtextedit_to_json makes it: one block, the texts as spans
ContentOf(texts) ==
    <<[alignment |-> 1,
       spans |-> [i \in 1..Len(texts) |-> TypedSpan(texts[i], i > 1)]]>>

DocumentData(name, texts) ==
    [type |-> "document", name |-> name, content |-> ContentOf(texts),
     created |-> "t0", modified |-> "t0",
     undo_stack |-> <<ContentOf(texts)>>, redo_stack |-> <<>>]

FolderData(name, item_datas) ==
    [type |-> "folder", name |-> name, items |-> item_datas,
     created |-> "t0", modified |-> "t0"]

NoteData == [type |-> "note", name |-> "n.txt", content |-> ContentOf(<<"a">>),
             created |-> "t0", modified |-> "t0"]

GoodRoot ==
    FolderData("Book", <<FolderData("Zeta", <<DocumentData("b.lango", <<"Xa">>)>>),
                         DocumentData("a.lango", <<"b">>)>>)

RootDatas ==
    {GoodRoot,
     FolderData("Research", <<>>),
     FolderData("Book", <<NoteData, DocumentData("a.lango", <<"b">>)>>),
     FolderData("Book", <<FolderData("Zeta", <<DocumentData("b.lango", <<"Xa">>),
                                               NoteData>>)>>),
     FolderData("Book", <<FolderData("Zeta", <<WithoutKeys(NoteData, {"type"})>>)>>),
     FolderData("Book", <<WithoutKeys(DocumentData("a.lango", <<"b">>), {"content"})>>),
     FolderData("Book", <<WithoutKeys(FolderData("Zeta", <<>>), {"items"})>>),
     WithoutKeys(GoodRoot, {"name"})}

EmptyDict == [k \in {} |-> {}]

ResearchDatas ==
    {EmptyDict,
     [research_folder |-> FolderData("Research", <<DocumentData("r.lango", <<"xab">>)>>)],
     [research_folder |-> WithoutKeys(FolderData("Research", <<>>), {"name"})]}

TrashDatas ==
    {EmptyDict,
     [trash_folder |-> FolderData("Trash", <<DocumentData("t.lango", <<"a">>)>>)],
     [trash_folder |-> FolderData("Trash", <<WithoutKeys(NoteData, {"type"})>>)]}

CurrentDatas ==
    {EmptyDict,
     [current_document |-> None],
     [current_document |-> Some(DocumentData("b.lango", <<"Xa", "b">>))],
     [current_document |-> Some(WithoutKeys(DocumentData("b.lango", <<"Xa">>), {"content"}))]}

WorkspaceFiles ==
    {[json |-> "object",
      data |-> [root_folder |-> root] @@ research @@ trash @@ current] :
        root \in RootDatas, research \in ResearchDatas, trash \in TrashDatas,
        current \in CurrentDatas}

Files ==
    WorkspaceFiles \cup
    {[json |-> "malformed", data |-> EmptyDict],
     [json |-> "array", data |-> EmptyDict],
     [json |-> "object", data |-> EmptyDict],
     [json |-> "object", data |-> DocumentData("single.lango", <<"a">>)],
     [json |-> "object", data |-> WithoutKeys(DocumentData("single.lango", <<"a">>),
                                              {"content"})]}

OpenFile ==
    /\ nopen < MaxOpens
    /\ \E file \in Files : open_document(file)

NextOpen == OpenFile

(***************************************************************************)
(* Saving.  save_to_file runs in the window's thread: no other handler     *)
(* runs before it returns or raises, but the process can die between two   *)
(* of its steps, and every step that touches the disk can fail.  A file is *)
(* None when it does not exist, and else the data written to it and        *)
(* whether all of the data is there.                                       *)
(***************************************************************************)
\* the created and modified fields of a persisted record
Stamped(data) == data @@ [created |-> "t0", modified |-> "t0"]

\* LangoTangoFolder.to_dict of folder f of the window w
RECURSIVE FolderToDict(_, _)
FolderToDict(w, f) ==
    Stamped([type |-> "folder", name |-> w.folder_name[f],
             items |-> [i \in 1..Len(w.items[f]) |->
                          LET item == w.items[f][i]
                          IN  IF item \in DOMAIN w.items THEN FolderToDict(w, item)
                              ELSE Stamped(to_dict(w.documents[item]))]])

\* the data save_to_file builds (lines 2189-2195)
WorkspaceData(w) ==
    [root_folder |-> FolderToDict(w, w.root_folder),
     research_folder |-> FolderToDict(w, w.research_folder),
     trash_folder |-> FolderToDict(w, w.trash_folder),
     current_document |-> IF w.current_document = NoDocument THEN None
                          ELSE Some(Stamped(to_dict(w.documents[w.current_document])))]

\* mutant: the data is written to the target path
open_target(d, data) == [d EXCEPT !.target = Some([data |-> data, complete |-> FALSE])]

\* open(temp_path, 'w'): the temporary file exists and is empty
open_temp(d, data) == [d EXCEPT !.temp = Some([data |-> data, complete |-> FALSE])]

\* json.dump, flush and fsync have returned
write_temp(d) == [d EXCEPT !.temp = Some([@[1] EXCEPT !.complete = TRUE])]

\* shutil.copy2(file_path, backup_path)
copy_backup(d) == [d EXCEPT !.backups = Append(@, d.target)]

\* os.replace(temp_path, file_path)
os_replace(d) == [d EXCEPT !.target = d.temp, !.temp = None]

\* the except branch: os.remove(temp_path) if the file exists
remove_temp(d) == [d EXCEPT !.temp = None]

saveFrame == <<historyVars, h_ret, h_pre, nedit, current_document, text_editor,
               projectVars>>

\* save_to_file returns or raises: `dialog` tells whether it has shown its
\* message box.  auto_save catches what save_to_file raises; save_document
\* and save_document_as do not.
Returned(call, failed, dialog) ==
    /\ saving' = None
    /\ h_save' = Some([by |-> call.by, failed |-> failed, dialog |-> dialog,
                       escaped |-> failed /\ call.by = "user",
                       replaced |-> call.pc = "replace" /\ ~failed,
                       copy_failed |-> call.copy_failed,
                       documents |-> call.documents, disk |-> call.disk])
    /\ current_file_path' = IF call.by = "user" /\ ~failed
                            THEN Some("project.lango") ELSE current_file_path

\* save_document, save_document_as (by the user) or auto_save (by the timer)
\* calls save_to_file; auto_save does so only when there is a file path
call_save_to_file(by) ==
    /\ saving = None
    /\ ~crashed
    /\ nsave < MaxSaves
    /\ by = "timer" => current_file_path # None
    /\ nsave' = nsave + 1
    /\ saving' = Some([by |-> by, pc |-> "mkdir", data |-> None, copy_failed |-> FALSE,
                       documents |-> documents, disk |-> disk])
    /\ h_op' = "save_to_file"
    /\ UNCHANGED <<documents, undo_shortcut, redo_shortcut, disk, crashed, h_save,
                   current_file_path, converted, extraVars,
                   saveFrame>>

\* backup_dir.mkdir(parents=True, exist_ok=True), before the try block
make_backup_dir(ok) ==
    /\ saving # None /\ ~crashed /\ saving[1].pc = "mkdir"
    /\ IF ok THEN /\ saving' = Some([saving[1] EXCEPT !.pc = "update"])
                  /\ UNCHANGED <<h_save, current_file_path>>
       ELSE Returned(saving[1], TRUE, FALSE)
    /\ h_op' = "mkdir"
    /\ UNCHANGED <<documents, undo_shortcut, redo_shortcut, disk, crashed, nsave,
                   converted, extraVars,
                   saveFrame>>

\* self.document_changed() and the to_dict calls (lines 2182-2195)
update_current_document ==
    LET w == document_changed(Window)
    IN  /\ saving # None /\ ~crashed /\ saving[1].pc = "update"
        /\ documents' = w.documents
        /\ undo_shortcut' = w.undo_shortcut
        /\ redo_shortcut' = w.redo_shortcut
        /\ saving' = Some([saving[1] EXCEPT !.pc = "open", !.data = Some(WorkspaceData(w))])
        /\ h_op' = "save_update"
        /\ UNCHANGED <<disk, crashed, nsave, h_save, current_file_path, converted,
                       extraVars,
                       saveFrame>>

\* a step of the try block that touches the disk and fails: the except
\* branch removes the temporary file, shows the message box and raises
Failed ==
    /\ disk' = remove_temp(disk)
    /\ Returned(saving[1], TRUE, TRUE)

open_temp_file(ok) ==
    /\ saving # None /\ ~crashed /\ saving[1].pc = "open"
    /\ IF ok THEN /\ disk' = open_temp(disk, saving[1].data[1])
                  /\ saving' = Some([saving[1] EXCEPT !.pc = "write"])
                  /\ UNCHANGED <<h_save, current_file_path>>
       ELSE Failed
    /\ h_op' = "save_open"
    /\ UNCHANGED <<documents, undo_shortcut, redo_shortcut, crashed, nsave,
                   converted, extraVars,
                   saveFrame>>

write_temp_file(ok) ==
    /\ saving # None /\ ~crashed /\ saving[1].pc = "write"
    /\ IF ok THEN /\ disk' = write_temp(disk)
                  /\ saving' = Some([saving[1] EXCEPT
                                        !.pc = IF disk.target # None THEN "backup"
                                               ELSE "replace"])
                  /\ UNCHANGED <<h_save, current_file_path>>
       ELSE Failed
    /\ h_op' = "save_write"
    /\ UNCHANGED <<documents, undo_shortcut, redo_shortcut, crashed, nsave,
                   converted, extraVars,
                   saveFrame>>

\* the copy of the existing file; a failure is printed and the save goes on
backup_existing_file(ok) ==
    /\ saving # None /\ ~crashed /\ saving[1].pc = "backup"
    /\ disk' = IF ok THEN copy_backup(disk) ELSE disk
    /\ saving' = Some([saving[1] EXCEPT !.pc = "replace", !.copy_failed = ~ok])
    /\ h_op' = "save_backup"
    /\ UNCHANGED <<documents, undo_shortcut, redo_shortcut, crashed, nsave, h_save,
                   current_file_path, converted, extraVars,
                   saveFrame>>

replace_file(ok) ==
    /\ saving # None /\ ~crashed /\ saving[1].pc = "replace"
    /\ IF ok THEN /\ disk' = os_replace(disk)
                  /\ Returned(saving[1], FALSE, FALSE)
       ELSE Failed
    /\ h_op' = "save_replace"
    /\ UNCHANGED <<documents, undo_shortcut, redo_shortcut, crashed, nsave,
                   converted, extraVars,
                   saveFrame>>

\* the process dies between two steps of save_to_file
crash ==
    /\ saving # None /\ ~crashed
    /\ crashed' = TRUE
    /\ h_op' = "crash"
    /\ UNCHANGED <<documents, undo_shortcut, redo_shortcut, disk, saving, nsave,
                   h_save, current_file_path, converted, extraVars,
                   saveFrame>>

SaveByUser == call_save_to_file("user")

AutoSave == call_save_to_file("timer")

MakeBackupDir == \E ok \in BOOLEAN : make_backup_dir(ok)

OpenTempFile == \E ok \in BOOLEAN : open_temp_file(ok)

WriteTempFile == \E ok \in BOOLEAN : write_temp_file(ok)

BackupExistingFile == \E ok \in BOOLEAN : backup_existing_file(ok)

ReplaceFile == \E ok \in BOOLEAN : replace_file(ok)

\* the user's actions while no save is running
EditIdle == saving = None /\ Edit

UndoIdle == saving = None /\ undo_document

RedoIdle == saving = None /\ redo_document

NextSave ==
    \/ EditIdle
    \/ UndoIdle
    \/ RedoIdle
    \/ SaveByUser
    \/ AutoSave
    \/ MakeBackupDir
    \/ update_current_document
    \/ OpenTempFile
    \/ WriteTempFile
    \/ BackupExistingFile
    \/ ReplaceFile
    \/ crash

(***************************************************************************)
(* SpecReload: a folder of the workspace is written with to_dict and read  *)
(* back with from_dict, as save_to_file and open_document do for the three *)
(* top-level folders.  The copy is named "copy" and the objects in it      *)
(* after their place in it.                                                *)
(***************************************************************************)
\* LangoTangoFolder.from_dict(f.to_dict()) for a folder f of the workspace
round_trip ==
    \E f \in InWorkspace \cap DOMAIN items :
        /\ ~Endless
        /\ reloaded = None
        /\ reloaded' = Some([folder |-> f,
                             window |-> FolderFromDict(Window, "copy",
                                                       FolderToDict(Window, f))])
        /\ h_op' = "round_trip"
        /\ UNCHANGED <<historyVars, editorVars, h_ret, h_pre, projectVars,
                       converted, commentaryVars, saveVars>>

(***************************************************************************)
(* AICommentary.  analyze_text starts a QThread and moves an AIWorker to   *)
(* it; the worker's process runs in that thread.  The signals of the       *)
(* worker and of the thread are emitted in the thread and their slots      *)
(* belong to objects of the main thread, so each emission queues the slot  *)
(* calls for the main thread's event loop, in the order of the connect     *)
(* calls.  A thread is "started" until process has run, "looping" while    *)
(* its event loop runs, "quitting" when quit() has reached it and          *)
(* "finished" when it has emitted finished.                                *)
(***************************************************************************)
Servers == {"Ollama", "LM Studio"}

\* what requests.post came to: status 200, another status, an exception
Outcomes == {"200", "status", "exception"}

SlotCall(slot, k) == [slot |-> slot, thread |-> k]

commentaryFrame == <<historyVars, editorVars, h_ret, h_pre, projectVars,
                     converted, reloaded, saveVars>>

\* AIWorker.process: finished is connected to handle_response and to
\* thread.quit (lines 527, 529), error to handle_error only (line 528)
Emitted(k, outcome) ==
    IF outcome = "200"
    THEN <<SlotCall("handle_response", k), SlotCall("quit", k)>>
    ELSE <<SlotCall("handle_error", k)>>

\* QThread.finished is connected to cleanup_thread (line 532)
ThreadFinishedEmitted(k) == <<SlotCall("cleanup_thread", k)>>

\* text_changed(text), lines 495-499
text_changed(text) ==
    /\ last_text' = text
    /\ typing_timer' = TRUE
    /\ h_op' = "text_changed"
    /\ UNCHANGED <<server_combo, model_combo, worker_thread, threads,
                   main_events, status_label, commentaryFrame>>

\* analyze_text, the slot of typing_timer.timeout (single shot)
analyze_text ==
    /\ typing_timer
    /\ typing_timer' = FALSE
    /\ h_op' = "analyze_text"
    /\ IF last_text = "" \/ worker_thread # None
       THEN UNCHANGED <<worker_thread, threads, status_label>>
       ELSE IF model_combo = ""
            THEN /\ status_label' = "No model selected. Please select a model."
                 /\ UNCHANGED <<worker_thread, threads>>
            ELSE /\ Len(threads) < MaxRequests
                 /\ threads' = Append(threads, [pc |-> "started", outcome |-> ""])
                 /\ worker_thread' = Some(Len(threads) + 1)
                 /\ UNCHANGED status_label
    /\ UNCHANGED <<last_text, server_combo, model_combo, main_events,
                   commentaryFrame>>

\* AIWorker.process in thread k
process(k, outcome) ==
    /\ threads[k].pc = "started"
    /\ threads' = [threads EXCEPT ![k] = [pc |-> "looping", outcome |-> outcome]]
    /\ main_events' = main_events \o Emitted(k, outcome)
    /\ h_op' = "process"
    /\ UNCHANGED <<last_text, typing_timer, server_combo, model_combo,
                   worker_thread, status_label, commentaryFrame>>

\* the main thread's event loop runs the next queued slot call
deliver ==
    /\ main_events # <<>>
    /\ LET call == Head(main_events)
       IN  /\ h_op' = call.slot
           /\ status_label' = IF call.slot = "handle_error" THEN "Error"
                               ELSE status_label
           /\ threads' = IF call.slot = "quit" /\ threads[call.thread].pc = "looping"
                          THEN [threads EXCEPT ![call.thread].pc = "quitting"]
                          ELSE threads
           /\ worker_thread' = IF call.slot = "cleanup_thread" THEN None
                                ELSE worker_thread
    /\ main_events' = Tail(main_events)
    /\ UNCHANGED <<last_text, typing_timer, server_combo, model_combo,
                   commentaryFrame>>

\* the event loop of thread k returns and the thread emits finished
thread_finished(k) ==
    /\ threads[k].pc = "quitting"
    /\ threads' = [threads EXCEPT ![k].pc = "finished"]
    /\ main_events' = main_events \o ThreadFinishedEmitted(k)
    /\ h_op' = "thread_finished"
    /\ UNCHANGED <<last_text, typing_timer, server_combo, model_combo,
                   worker_thread, status_label, commentaryFrame>>

\* on_server_changed: cleanup_resources (quit() and wait() on the thread
\* worker_thread refers to, then worker_thread = None), then
\* fetch_available_models, which finds a model or none
on_server_changed(server, outcome, model) ==
    /\ server # server_combo
    /\ server_combo' = server
    /\ model_combo' = model
    /\ status_label' = IF model = "" THEN "Failed to connect"
                        ELSE "Connected to " \o server
    /\ worker_thread' = None
    /\ IF worker_thread = None \/ threads[worker_thread[1]].pc = "finished"
       THEN UNCHANGED <<threads, main_events>>
       ELSE LET k == worker_thread[1]
                ran == IF threads[k].pc = "started"
                       THEN [pc |-> "finished", outcome |-> outcome]
                       ELSE [threads[k] EXCEPT !.pc = "finished"]
            IN  /\ threads' = [threads EXCEPT ![k] = ran]
                /\ main_events' = main_events
                                    \o (IF threads[k].pc = "started"
                                        THEN Emitted(k, outcome) ELSE <<>>)
                                    \o ThreadFinishedEmitted(k)
    /\ h_op' = "on_server_changed"
    /\ UNCHANGED <<last_text, typing_timer, commentaryFrame>>

TextChanged == \E text \in {"", "draft"} : text_changed(text)

Process == \E k \in DOMAIN threads : \E outcome \in Outcomes : process(k, outcome)

ThreadFinished == \E k \in DOMAIN threads : thread_finished(k)

OnServerChanged ==
    \E server \in Servers : \E outcome \in Outcomes : \E model \in {"", "llama"} :
        on_server_changed(server, outcome, model)

NextCommentary ==
    \/ TextChanged
    \/ analyze_text
    \/ Process
    \/ deliver
    \/ ThreadFinished
    \/ OnServerChanged

\* the timer fires, the worker's thread runs and both event loops run; the
\* user need not type or pick another server
CommentaryFairness ==
    /\ WF_vars(analyze_text)
    /\ WF_vars(Process)
    /\ WF_vars(deliver)
    /\ WF_vars(ThreadFinished)

\* create_new_file with no folder selected (line 1930)
CreateFileInRoot == ncreated < MaxCreated /\ create_new_file(root_folder)

NextEditor ==
    \/ Edit
    \/ undo_document
    \/ redo_document
    \/ file_tree_clicked_document
    \/ file_tree_clicked_folder
    \/ CreateFileInRoot

CreateFile ==
    /\ ncreated < MaxCreated
    /\ \E parent_folder \in ShownFolders : create_new_file(parent_folder)

CreateFolder ==
    /\ ncreated < MaxCreated
    /\ \E parent_folder \in ShownFolders : create_new_folder(parent_folder)

Drop ==
    /\ nmove < MaxMoves
    /\ \E dragged_item, target_item \in TreeItems :
          tree_drop_event(dragged_item, target_item)

MoveToTrash ==
    /\ nmove < MaxMoves
    /\ \E item \in TreeItems : move_to_trash(item)

MoveToResearch ==
    /\ nmove < MaxMoves
    /\ \E item \in TreeItems : move_to_research(item)

EmptyTrash == \E reply \in BOOLEAN : empty_trash(reply)

Rename ==
    /\ nrename < MaxRenames
    /\ \E item \in TreeItems : \E name \in RenameTo : rename_item(item, name)

\* the saved workspaces opened in the runs that compile and search
ProjectFiles ==
    {[json |-> "object", data |-> [root_folder |-> GoodRoot] @@ others] :
        others \in {EmptyDict,
                    [research_folder |->
                         FolderData("Research", <<DocumentData("r.lango", <<"xab">>)>>),
                     trash_folder |->
                         FolderData("Trash", <<DocumentData("t.lango", <<"a">>)>>)]}}

OpenProject ==
    /\ nopen < MaxOpens
    /\ \E file \in ProjectFiles : open_document(file)

NextProject ==
    \/ OpenProject
    \/ Drop
    \/ MoveToTrash
    \/ MoveToResearch
    \/ Rename
    \/ compile_project
    \/ perform_search

\* SpecCurrent: what assigns current_document and what takes documents out
\* of the folders
OpenSaved ==
    /\ nopen < MaxOpens
    /\ \E file \in ProjectFiles
                     \cup {[json |-> "object",
                            data |-> DocumentData("single.lango", <<"a">>)]} :
          open_document(file)

NextCurrent ==
    \/ new_document
    \/ OpenSaved
    \/ CreateFile
    \/ MoveToTrash
    \/ EmptyTrash

\* SpecReload: a behaviour ends with the round trip
EditBefore == reloaded = None /\ Edit

UndoBefore == reloaded = None /\ undo_document

RedoBefore == reloaded = None /\ redo_document

CreateFileBefore == reloaded = None /\ CreateFile

CreateFolderBefore == reloaded = None /\ CreateFolder

NextReload ==
    \/ EditBefore
    \/ UndoBefore
    \/ RedoBefore
    \/ CreateFileBefore
    \/ CreateFolderBefore
    \/ round_trip

NextTree ==
    \/ CreateFile
    \/ CreateFolder
    \/ Drop
    \/ MoveToTrash
    \/ MoveToResearch
    \/ EmptyTrash

Init == HistoryInit /\ EditorInit /\ TreeInit

Spec == Init /\ [][NextHistory]_vars

SpecEditor == Init /\ [][NextEditor]_vars

SpecTree == Init /\ [][NextTree]_vars

SpecExcerpt == Init /\ [][NextExcerpt]_vars

SpecOpen == Init /\ [][NextOpen]_vars

SpecProject == Init /\ [][NextProject]_vars

SpecStacks == Init /\ [][NextStacks]_vars

SpecContent == Init /\ [][NextContent]_vars

SpecCurrent == Init /\ [][NextCurrent]_vars

SpecSave == Init /\ [][NextSave]_vars

SpecReload == Init /\ [][NextReload]_vars

SpecCommentary == Init /\ [][NextCommentary]_vars /\ CommentaryFairness

(***************************************************************************)
(* Claims about the document history, checked under Spec.                  *)
(***************************************************************************)

\* C1: undo_stack never holds more than max_states (50) entries, and while
\* add_state is the only method called it holds exactly the last 50 contents
\* recorded, in recording order (the oldest is the one evicted).
C1_HistoryBound ==
    /\ Len(doc.undo_stack) <= max_states
    /\ recorded # <<>> => doc.undo_stack = LastN(recorded, max_states)

\* more than 50 add_state calls were made and nothing else
C1_Witness ==
    /\ recorded # <<>>
    /\ nrec > max_states + 1
    /\ h_op = "add_state"
    /\ doc.undo_stack[1] = nrec - max_states + 1

\* C2: a redo() that immediately follows a popping undo() returns the state
\* that undo() popped and leaves both stacks as they were before the undo.
C2_UndoRedoInverse ==
    (h_op = "redo" /\ h_undo # None) =>
        /\ h_ret = Some(h_undo[1].popped)
        /\ doc.undo_stack = h_undo[1].before.undo_stack
        /\ doc.redo_stack = h_undo[1].before.redo_stack

\* undo() then redo() on a full undo_stack
C2_Witness ==
    /\ h_op = "redo"
    /\ h_undo # None
    /\ Len(h_undo[1].before.undo_stack) = max_states
    /\ h_ret = Some(h_undo[1].popped)

C4_UndoAtFloor ==
    (h_op = "undo" /\ Len(h_pre.undo_stack) = 1) =>
        /\ h_ret = Some(h_pre.undo_stack[1])
        /\ doc.undo_stack = h_pre.undo_stack
        /\ doc.redo_stack = h_pre.redo_stack

\* C5: redo() on an empty redo_stack returns the top of undo_stack and
\* changes neither stack.
C5_RedoAtEmpty ==
    (h_op = "redo" /\ h_pre.redo_stack = <<>>) =>
        /\ h_ret = Some(Last(h_pre.undo_stack))
        /\ doc.undo_stack = h_pre.undo_stack
        /\ doc.redo_stack = h_pre.redo_stack

\* C6: undo_stack has at least one entry in every reachable state of the
\* document: after construction, add_state, undo, redo and from_dict.
C6_UndoStackNonEmpty == Len(doc.undo_stack) >= 1

\* from_dict of a persisted document without the undo_stack key, and undo()
\* at the floor of the loaded document
C6_Witness ==
    /\ h_op = "undo"
    /\ Len(h_pre.undo_stack) = 1
    /\ nrec > 1

(***************************************************************************)
(* Claims about the editor integration, checked under SpecEditor.          *)
(***************************************************************************)

\* C7: after every edit, undo_document, redo_document and selection of a
\* document, the undo shortcut is enabled iff the current document's
\* undo_stack has more than one entry, and the redo shortcut is enabled iff
\* its redo_stack is not empty.
C7_ShortcutsFollowStacks ==
    (h_op \in {"edit", "undo_document", "redo_document", "select"}
        /\ current_document # NoDocument) =>
        /\ undo_shortcut <=> Len(documents[current_document].undo_stack) > 1
        /\ redo_shortcut <=> Len(documents[current_document].redo_stack) > 0

\* C25: a user edit that leaves the editor's content different from the top
\* of the current document's undo_stack appends exactly that content, once,
\* to the undo_stack, also when it is the first edit after an undo.
C25_OneEntryPerEdit ==
    [][(h_op' = "edit" /\ current_document # NoDocument
           /\ qtextedit_to_json(text_editor')
                 # Last(documents[current_document].undo_stack))
         => documents'[current_document].undo_stack
               = Append(documents[current_document].undo_stack,
                        qtextedit_to_json(text_editor'))]_vars

\* C29: after an edit, an undo_document and a redo_document the current
\* document's content field is the top of its undo_stack and is what the
\* editor shows.
C29_ContentIsTopOfUndoStack ==
    (h_op \in {"edit", "undo_document", "redo_document"}
        /\ current_document # NoDocument)
      => /\ documents[current_document].content
               = Last(documents[current_document].undo_stack)
         /\ documents[current_document].content = qtextedit_to_json(text_editor)

(***************************************************************************)
(* Claim about the two stacks together, checked under SpecStacks.          *)
(***************************************************************************)

\* C27: the undo_stack and the redo_stack of a document changed only by
\* add_state, undo and redo hold no more than max_states entries together;
\* so redo_stack never holds more than max_states entries after undo()'s
\* append, and undo() never evicts.
C27_StacksTogetherBounded ==
    /\ Len(doc.undo_stack) + Len(doc.redo_stack) <= max_states
    /\ (h_op = "undo" /\ Len(h_pre.undo_stack) > 1)
          => Len(h_pre.redo_stack) + 1 <= max_states

\* every state but the oldest left was undone after evictions had begun
C27_Witness ==
    /\ h_op = "undo"
    /\ nrec > max_states
    /\ Len(doc.undo_stack) = 1
    /\ Len(doc.redo_stack) = max_states - 1

\* C24: the content read back from the editor has the blocks of the content
\* loaded: as many blocks, each with the alignment and as many spans, and
\* every span with the value of every field of the span loaded.
C24_ContentRoundTrip ==
    converted # None =>
        LET c == converted[1].content
            back == converted[1].back
        IN  /\ Len(back) = Len(c)
            /\ \A i \in 1..Len(c) :
                  /\ back[i].alignment = c[i].alignment
                  /\ Len(back[i].spans) = Len(c[i].spans)
                  /\ \A j \in 1..Len(c[i].spans) :
                        \A k \in DOMAIN c[i].spans[j] :
                            back[i].spans[j][k] = c[i].spans[j][k]

(***************************************************************************)
(* Claims about the workspace tree, checked under SpecTree.                *)
(***************************************************************************)

\* C8: a drop of a folder on that folder itself, on one of its descendants
\* or on an item inside one of its descendants is rejected and changes no
\* folder's items.
C8_DropIntoOwnSubtreeRejected ==
    (h_op = "drop" /\ h_drop.inside) => (~h_drop.accepted /\ ~h_drop.changed)

\* C9: no folder is in its own items or in the items of any of its
\* descendants.
C9_NoCycle == ~Cyclic

\* C10: every document and every folder other than root, Research and Trash
\* occurs in the items of exactly one folder, once; root, Research and Trash
\* occur in no folder's items.
C10_ExactlyOneOwner ==
    LET Occurrences(x) ==
            UNION {{<<f, i>> : i \in {k \in 1..Len(items[f]) : items[f][k] = x}} :
                   f \in DOMAIN items}
    IN  /\ \A x \in (DOMAIN documents \cup DOMAIN items) \ Range(TopLevel) :
               Cardinality(Occurrences(x)) = 1
        /\ \A t \in Range(TopLevel) : \A f \in DOMAIN items : t \notin Range(items[f])

\* C11: move_to_trash of a document takes it out of its source folder's
\* items and appends it to the Trash folder's items; no document, no name
\* and no other folder's items change; when the source folder is the Trash
\* folder nothing changes at all.
C11_MoveToTrashFrame ==
    [][(h_op' = "move_to_trash" /\ h_move'[1].data \in DOMAIN documents) =>
          LET data == h_move'[1].data
              source == h_move'[1].source
              Other(x) == x # data
          IN  /\ documents' = documents
              /\ folder_name' = folder_name
              /\ windowVars' = windowVars
              /\ DOMAIN items' = DOMAIN items
              /\ IF source = trash_folder THEN items' = items
                 ELSE /\ items'[source] = SelectSeq(items[source], Other)
                      /\ items'[trash_folder] = Append(items[trash_folder], data)
                      /\ \A f \in DOMAIN items \ {source, trash_folder} :
                            items'[f] = items[f]]_vars

\* a document was moved to the Trash folder from another folder
C11_Witness ==
    /\ h_op = "move_to_trash"
    /\ h_move[1].data \in DOMAIN documents
    /\ h_move[1].source # trash_folder
    /\ Last(items[trash_folder]) = h_move[1].data
    /\ h_move[1].data \notin Range(items[h_move[1].source])

\* the documents and folders created so far
Created == {"hello"} \cup {"item" \o ToString(k) : k \in 1..ncreated}

\* C12: whatever was created is still inside the root, Research or Trash
\* folder unless a confirmed empty_trash found it inside the Trash folder,
\* and what a confirmed empty_trash found there is no longer in the
\* workspace.
C12_OnlyEmptyTrashRemoves ==
    /\ (Created \ h_emptied) \subseteq InWorkspace
    /\ (h_op = "empty_trash") => (h_emptied \cap InWorkspace = {})

(***************************************************************************)
(* Claims about get_excerpt, checked under SpecExcerpt.                    *)
(***************************************************************************)

\* the excerpt without the "..." put before and after it
ExcerptBody(e) ==
    LET front == IF e.idx > 40 THEN 3 ELSE 0
        back == IF e.after > 40 THEN 3 ELSE 0
    IN  SubSeq(e.result, front + 1, Len(e.result) - back)

\* C17: for a text whose first case-insensitive occurrence of the query
\* starts at index i, the excerpt starts with "..." iff i > 40 and ends with
\* "..." iff more than 40 characters follow the occurrence; between the
\* marks it holds the occurrence with at most 40 characters on each side.
C17_ExcerptEllipses ==
    excerpt # None =>
        LET e == excerpt[1]
            body == ExcerptBody(e)
            at == Find(Lower(body), Lower(e.query))
        IN  /\ StartsWith(e.result, "...") <=> (e.idx > 40)
            /\ EndsWith(e.result, "...") <=> (e.after > 40)
            /\ at # -1
            /\ at <= 40
            /\ Len(body) - (at + Len(e.query)) <= 40

\* an excerpt of a match with more than 40 characters on both sides, and
\* characters other than blanks next to what is cut
C17_Witness ==
    /\ excerpt # None
    /\ excerpt[1].idx > 40
    /\ excerpt[1].after > 40
    /\ StartsWith(excerpt[1].result, "...x")
    /\ EndsWith(excerpt[1].result, "x...")
    /\ Len(excerpt[1].result) = 3 + 40 + 2 + 40 + 3

(***************************************************************************)
(* Claims about opening a file, checked under SpecOpen.                    *)
(***************************************************************************)

\* the file of the last open_document is a workspace file
OpenedWorkspace ==
    /\ h_op \in {"open", "open_failed"}
    /\ h_file[1].json = "object"
    /\ "root_folder" \in DOMAIN h_file[1].data

\* an item record without a type, of a type other than document and folder,
\* or without a field its type requires
BadRecord(item_data) ==
    \/ "type" \notin DOMAIN item_data
    \/ item_data["type"] \notin {"document", "folder"}
    \/ item_data["type"] = "document"
          /\ ~({"name", "content"} \subseteq DOMAIN item_data)
    \/ item_data["type"] = "folder"
          /\ ~({"name", "items"} \subseteq DOMAIN item_data)

\* the folder record has such an item record at some depth
RECURSIVE HasBadRecord(_)
HasBadRecord(data) ==
    /\ "items" \in DOMAIN data
    /\ \E i \in 1..Len(data["items"]) :
          \/ BadRecord(data["items"][i])
          \/ HasBadRecord(data["items"][i])

\* the folder records of the opened workspace file
FolderRecords ==
    {h_file[1].data[k] :
        k \in {"root_folder", "research_folder", "trash_folder"}
                 \cap DOMAIN h_file[1].data}

\* C18: the load of a folder record that has, at any depth, an item record
\* without a type, of a type other than document and folder, or without a
\* required field, fails: no such record is dropped by a load that succeeds.
C18_BadRecordFails ==
    (OpenedWorkspace /\ \E data \in FolderRecords : HasBadRecord(data))
        => h_op = "open_failed"

\* a folder record with its required fields and no bad item record
ValidFolder(data) ==
    /\ {"name", "items"} \subseteq DOMAIN data
    /\ ~HasBadRecord(data)

\* the folder `id` and everything in it is what the record `data` holds
RECURSIVE AsPersisted(_, _)
AsPersisted(id, data) ==
    /\ id \in DOMAIN items
    /\ folder_name[id] = data["name"]
    /\ Len(items[id]) = Len(data["items"])
    /\ \A i \in 1..Len(data["items"]) :
          LET x == items[id][i]
              item_data == data["items"][i]
          IN  IF item_data["type"] = "document"
              THEN x \in DOMAIN documents /\ documents[x] = from_dict(item_data)
              ELSE AsPersisted(x, item_data)

\* the opened workspace file has a valid root folder, lacks the key `absent`
\* and what it has of the other keys is valid
LacksOnly(absent) ==
    LET data == h_file[1].data
    IN  /\ OpenedWorkspace
        /\ ValidFolder(data["root_folder"])
        /\ absent \notin DOMAIN data
        /\ \A k \in {"research_folder", "trash_folder"} \cap DOMAIN data :
              ValidFolder(data[k])
        /\ ("current_document" \in DOMAIN data /\ data["current_document"] # None)
              => ~DocumentRaises(data["current_document"][1])

\* C19: the load of a workspace file with a valid root folder and no
\* research_folder key succeeds with an empty folder named "Research", the
\* load of one with no trash_folder key succeeds with an empty folder named
\* "Trash", and the root folder is what the file holds.
C19_MissingFolderDefaults ==
    /\ LacksOnly("research_folder") =>
          /\ h_op = "open"
          /\ research_folder \in DOMAIN items
          /\ items[research_folder] = <<>>
          /\ folder_name[research_folder] = "Research"
          /\ AsPersisted(root_folder, h_file[1].data["root_folder"])
    /\ LacksOnly("trash_folder") =>
          /\ h_op = "open"
          /\ trash_folder \in DOMAIN items
          /\ items[trash_folder] = <<>>
          /\ folder_name[trash_folder] = "Trash"
          /\ AsPersisted(root_folder, h_file[1].data["root_folder"])

\* C20: an open_document that ends in the error message leaves the root,
\* Research and Trash folders and the current document what they were.
C20_FailedOpenChangesNothing ==
    [][h_op' = "open_failed" =>
          /\ windowVars' = windowVars
          /\ current_document' = current_document
          /\ items' = items
          /\ folder_name' = folder_name
          /\ documents' = documents]_vars

(***************************************************************************)
(* Claims about compile and search, checked under SpecProject.             *)
(***************************************************************************)

\* the chunk is the heading of a folder or of a document
IsHeadingChunk(chunk) == chunk.kind \in {"folder", "document"}

\* the index after the last chunk made for what is inside the folder whose
\* heading is chunk k of `chunks`
EndOf(chunks, k) ==
    LET later == {j \in (k + 1)..Len(chunks) :
                     IsHeadingChunk(chunks[j]) /\ chunks[j].depth <= chunks[k].depth}
    IN  IF later = {} THEN Len(chunks) + 1
        ELSE CHOOSE j \in later : \A i \in later : j <= i

\* the items whose headings follow heading k one level deeper, in order
ChildrenOf(chunks, k) ==
    LET inside == SubSeq(chunks, k + 1, EndOf(chunks, k) - 1)
        IsChild(chunk) == IsHeadingChunk(chunk) /\ chunk.depth = chunks[k].depth + 1
        children == SelectSeq(inside, IsChild)
    IN  [i \in 1..Len(children) |-> children[i].of]

\* C13: the compiled text is the pre-order traversal of the root folder:
\* the project heading first, a folder's heading before everything in the
\* folder, a document's heading right before its text, and the items of one
\* folder in the order of its items list, whatever their names.
C13_CompilePreOrder ==
    compiled # None =>
        LET chunks == compiled[1]
        IN  /\ chunks[1].kind = "project" /\ chunks[1].of = root_folder
            /\ \A k \in 2..Len(chunks) : chunks[k].kind # "project"
            /\ \A k \in 1..Len(chunks) :
                  /\ (chunks[k].kind \in {"project", "folder"}
                         /\ chunks[k].of \notin {research_folder, trash_folder})
                        => ChildrenOf(chunks, k) = items[chunks[k].of]
                  /\ chunks[k].kind = "document"
                        => /\ k < Len(chunks)
                           /\ chunks[k + 1].kind = "body"
                           /\ chunks[k + 1].of = chunks[k].of
                  /\ chunks[k].kind = "body"
                        => /\ chunks[k - 1].kind = "document"
                           /\ chunks[k].text = PlainText(documents[chunks[k].of].content)

\* a compiled project whose root holds a folder named "Zeta" with a document
\* in it, followed by a document named "a.lango"
C13_Witness ==
    /\ h_op = "compile"
    /\ compiled # None
    /\ Len(compiled[1]) = 6
    /\ [i \in 1..6 |-> compiled[1][i].kind]
          = <<"project", "folder", "document", "body", "document", "body">>
    /\ folder_name[compiled[1][2].of] = "Zeta"
    /\ documents[compiled[1][5].of].name = "a.lango"
    /\ compiled[1][4].text = "Xa"

\* C14: the compiled text has no heading and no text made for the Research
\* folder, for the Trash folder or for a document or folder inside one of
\* them, wherever the two folders are in the tree.
C14_CompileSkipsResearchTrash ==
    compiled # None =>
        \A k \in 1..Len(compiled[1]) :
            compiled[1][k].of \notin
                ({research_folder, trash_folder}
                    \cup Descendants(research_folder) \cup Descendants(trash_folder))

\* a name without its ".lango" suffix
WithoutSuffix(name) ==
    IF EndsWith(name, ".lango") THEN SubSeq(name, 1, Len(name) - 6) ELSE name

\* C15: the title of a document in the compiled text is the document's name
\* without the suffix ".lango", and the name itself when it has no such
\* suffix.
C15_CompiledTitle ==
    compiled # None =>
        \A k \in 1..Len(compiled[1]) :
            compiled[1][k].kind = "document" =>
                compiled[1][k].text = WithoutSuffix(documents[compiled[1][k].of].name)

\* the documents below the items `rest`, in pre-order
RECURSIVE PreOrderDocuments(_)
PreOrderDocuments(rest) ==
    IF rest = <<>> THEN <<>>
    ELSE (IF IsFolder(Head(rest)) THEN PreOrderDocuments(items[Head(rest)])
          ELSE <<Head(rest)>>)
             \o PreOrderDocuments(Tail(rest))

\* a sequence without the later occurrences of its elements
RECURSIVE FirstOccurrences(_)
FirstOccurrences(seq) ==
    IF seq = <<>> THEN <<>>
    ELSE LET front == FirstOccurrences(Front(seq))
         IN  IF Last(seq) \in Range(front) THEN front ELSE Append(front, Last(seq))

\* C16: a search reports every document of the workspace, those in Research
\* and Trash included, whose plain text contains the query in any case, each
\* once, in pre-order of the tree.
C16_SearchFindsAll ==
    results # None =>
        LET Matches(d) ==
                Find(Lower(PlainText(documents[d].content)), results[1].query) # -1
            found == results[1].found
        IN  [i \in 1..Len(found) |-> found[i].data]
               = SelectSeq(FirstOccurrences(PreOrderDocuments(TopLevel)), Matches)

(***************************************************************************)
(* Claim about current_document, checked under SpecCurrent.                *)
(***************************************************************************)

\* C26: current_document is None or a document inside the root, Research or
\* Trash folder.
C26_CurrentDocumentInWorkspace ==
    current_document # NoDocument => current_document \in InWorkspace

(***************************************************************************)
(* Claims about saving, checked under SpecSave.                            *)
(***************************************************************************)

\* the data of the running save, complete in a file
NewFile == Some([data |-> saving[1].data[1], complete |-> TRUE])

\* the last step ended a save_to_file call
JustReturned ==
    /\ saving = None
    /\ h_save # None
    /\ h_op \in {"mkdir", "save_open", "save_write", "save_replace"}

C23_AutoSaveFailsQuietly ==
    (JustReturned /\ h_save[1].by = "timer" /\ h_save[1].failed)
        => /\ ~h_save[1].dialog
           /\ ~h_save[1].escaped
           /\ documents = h_save[1].documents

\* C28: the step of save_to_file that runs document_changed leaves the
\* undo_stack and the redo_stack of the current document as they are.
C28_SaveKeepsHistory ==
    [][(h_op' = "save_update" /\ current_document # NoDocument)
          => /\ documents'[current_document].undo_stack
                   = documents[current_document].undo_stack
             /\ documents'[current_document].redo_stack
                   = documents[current_document].redo_stack]_vars

(***************************************************************************)
(* Claims about to_dict and from_dict, checked under SpecReload.           *)
(***************************************************************************)

\* folder `copy` of window v has the name of folder f of window w and, place
\* by place, the same items: a folder that is the same in this sense, or a
\* document with the same name, content, undo_stack and redo_stack
RECURSIVE SameFolder(_, _, _, _)
SameFolder(w, f, v, copy) ==
    /\ v.folder_name[copy] = w.folder_name[f]
    /\ Len(v.items[copy]) = Len(w.items[f])
    /\ \A i \in 1..Len(w.items[f]) :
          LET item == w.items[f][i]
              read == v.items[copy][i]
          IN  IF item \in DOMAIN w.items
              THEN read \in DOMAIN v.items /\ SameFolder(w, item, v, read)
              ELSE /\ read \notin DOMAIN v.items
                   /\ v.documents[read] = w.documents[item]
                   /\ undo(v.documents[read]) = undo(w.documents[item])
                   /\ redo(v.documents[read]) = redo(w.documents[item])

\* C21: a folder read back with from_dict from what to_dict wrote has the
\* same items in the same order, folders within folders included, and each
\* document in it has the name, content, undo_stack and redo_stack of the
\* document written, so that undo() and redo() give the same on both.
C21_ToDictFromDictRoundTrip ==
    (h_op = "round_trip" /\ reloaded # None)
        => SameFolder(Window, reloaded[1].folder, reloaded[1].window, "copy")

\* the root folder written and read back holds a folder with a document in
\* it and a document that has states both to undo and to redo
C21_Witness ==
    /\ h_op = "round_trip"
    /\ reloaded # None
    /\ reloaded[1].folder = root_folder
    /\ \E f \in Range(items[root_folder]) \cap DOMAIN items :
          \E d \in Range(items[f]) : d \in DOMAIN documents
    /\ \E d \in Range(items[root_folder]) \cap DOMAIN documents :
          /\ Len(documents[d].undo_stack) > 1
          /\ documents[d].redo_stack # <<>>
    /\ Len(reloaded[1].window.items["copy"]) = Len(items[root_folder])

(***************************************************************************)
(* Claims about the commentary, checked under SpecCommentary.              *)
(***************************************************************************)

\* C30: whenever worker_thread refers to a thread analyze_text has started,
\* worker_thread is None again at some later time.
C30_RequestEnds ==
    \A k \in 1..MaxRequests : (worker_thread = Some(k)) ~> (worker_thread = None)

=============================================================================
